---------------------------- MODULE Spec2Model ----------------------------
(***************************************************************************)
(* A model of the statement parser (src/src/pdf_processor.py): the pure    *)
(* cleaning functions on text cells and tables, and process_pdf as a state *)
(* machine over the tables of one document.                                *)
(*                                                                         *)
(* Text is a sequence of one-character strings.  A cell that is not text   *)
(* (the float NaN pandas uses for a missing value) is the value NaN.       *)
(* A Decimal is a record [sign, coef, exp] as in Python's decimal module:  *)
(* its value is (-1)^sign * coef * 10^exp, and exp keeps the number of     *)
(* fraction digits the text had.                                           *)
(***************************************************************************)
EXTENDS Integers, Sequences, FiniteSets, TLC

VARIABLES
    pc,                 \* position of process_pdf
    tables,             \* doc.tables: what the converter extracted
    idx,                \* the loop variable i of process_pdf (1-based)
    df,                 \* the loop's current data frame
    transaction_dfs,    \* the accepted data frames
    combined,           \* combined_transaction_df
    starting_balance,   \* result record of the first anchor
    ending_balance,     \* result record of the second anchor
    csv,                \* the file written by save_to_csv, or NoFile
    exc,                \* the exception a step raised, "" when none
    propagated,         \* TRUE when an exception left process_pdf
    out,                \* the outcome lines printed, in order
    stages,             \* history: the stages completed, in order
    raw_combined,       \* history: combined_transaction_df right after concat
    sanitized,          \* history: the frame handed to validate_transaction_totals
    fn,                 \* unit harness: the function called, "" before the call
    arg,                \* unit harness: its argument
    ret,                \* unit harness: its result record
    mpc,                \* main: its position, "idle" when main is not running
    args,               \* main: the parsed command line
    pdf_bytes,          \* main: what get_pdf_bytes returned
    output_dir,         \* main: TRUE once os.makedirs has run
    temp_pdf,           \* main: the temporary file
    uploaded_file,      \* interactive: the name of the uploaded file, "" for None
    password_input,     \* interactive: the text of the password field
    session_state,      \* interactive: st.session_state
    select,             \* interactive: the state of the checkboxes select_{idx}
    selected_tables,    \* interactive: history: the list last handed to
                        \* process_selected_tables
    combined_df,        \* interactive: history: the frame it concatenated
    report,             \* interactive: history: what the last run reported of
                        \* a click on a button, "" when it handled none
    displayed           \* interactive: history: the frames the last run showed

pvars == <<pc, tables, idx, df, transaction_dfs, combined, starting_balance,
           ending_balance, csv, exc, propagated, out, stages, raw_combined,
           sanitized>>
uvars == <<fn, arg, ret>>
mvars == <<mpc, args, pdf_bytes, output_dir, temp_pdf>>
\* the variables of the callers of the pipeline
svars == <<uploaded_file, password_input, session_state, select,
           selected_tables, combined_df, report, displayed>>
cvars == <<mvars, svars>>
vars == <<pvars, uvars, cvars>>

---------------------------------------------------------------------------
(* Bounds of the model. *)

\* longest text the unit harness hands to clean_amount
MaxLen == 5
\* most rows of one document
MaxRows == 3

---------------------------------------------------------------------------
(* Text. *)

Digits == {"0", "1", "2", "3", "4", "5", "6", "7", "8", "9"}

DigitVal(c) ==
    CASE c = "0" -> 0 [] c = "1" -> 1 [] c = "2" -> 2 [] c = "3" -> 3
      [] c = "4" -> 4 [] c = "5" -> 5 [] c = "6" -> 6 [] c = "7" -> 7
      [] c = "8" -> 8 [] c = "9" -> 9

\* the float NaN of a missing cell: the one value of a cell that is not text
NaN == <<"NaN">>

IsStr(x) == x # NaN

\* str.startswith
StartsWith(s, p) == Len(s) >= Len(p) /\ SubSeq(s, 1, Len(p)) = p

\* the number of consecutive characters of S that end at position e of s
RECURSIVE RunBack(_, _, _)
RunBack(s, e, S) ==
    IF e = 0 \/ s[e] \notin S THEN 0 ELSE 1 + RunBack(s, e - 1, S)

\* int() of a text of digits (0 for the empty text)
RECURSIVE NatOf(_)
NatOf(ds) ==
    IF ds = <<>> THEN 0
    ELSE 10 * NatOf(SubSeq(ds, 1, Len(ds) - 1)) + DigitVal(ds[Len(ds)])

RECURSIVE Pow10(_)
Pow10(n) == IF n = 0 THEN 1 ELSE 10 * Pow10(n - 1)

Abs(n) == IF n < 0 THEN -n ELSE n

Min(a, b) == IF a <= b THEN a ELSE b

---------------------------------------------------------------------------
(* decimal.Decimal: exact arithmetic on [sign, coef, exp]. *)

Dec(sg, c, e) == [sign |-> sg, coef |-> c, exp |-> e]

\* the integer d * 10^(-e), for e <= d.exp
DecScaled(d, e) ==
    (IF d.sign = 1 THEN -1 ELSE 1) * d.coef * Pow10(d.exp - e)

\* Decimal.__eq__: numeric, so 1.0 == 1.00
DecEq(a, b) ==
    LET e == Min(a.exp, b.exp) IN DecScaled(a, e) = DecScaled(b, e)

\* x < 0 for a Decimal (a negative zero is not below zero)
DecNegative(a) == a.sign = 1 /\ a.coef # 0

\* Decimal.__add__: the exponent of the sum is the smaller one; a zero sum is
\* negative only when both operands are negative
DecAdd(a, b) ==
    LET e == Min(a.exp, b.exp)
        v == DecScaled(a, e) + DecScaled(b, e)
    IN  Dec(IF v < 0 THEN 1
            ELSE IF v > 0 THEN 0
            ELSE IF a.sign = 1 /\ b.sign = 1 THEN 1 ELSE 0,
            Abs(v), e)

\* Decimal.__neg__: the negation of a zero is the positive zero
DecNeg(a) ==
    IF a.coef = 0 THEN [a EXCEPT !.sign = 0] ELSE [a EXCEPT !.sign = 1 - a.sign]

\* the int 0 a sum starts from
DecZero == Dec(0, 0, 0)

---------------------------------------------------------------------------
(* Results: a returned value or a raised exception. *)

Ok(v) == [kind |-> "ok", val |-> v]
Raise(e) == [kind |-> e]
NoResult == [kind |-> "none"]

IsOk(r) == r.kind = "ok"

---------------------------------------------------------------------------
(* clean_amount *)

AmountChars == Digits \cup {",", "-"}

\* a clean_amount that leaves the space behind a leading minus sign in place
NormalizeMinus_Kept(s) == s

\* if amount_str.startswith('- '): amount_str = '-' + amount_str[2:]
NormalizeMinus(s) ==
    IF StartsWith(s, <<"-", " ">>) THEN <<"-">> \o SubSeq(s, 3, Len(s)) ELSE s

\* where '$' matches behind a digit: at the end of the text, or before the one
\* line break that ends it
DollarPos(s) ==
    IF Len(s) > 0 /\ s[Len(s)] = "\n" THEN Len(s) - 1 ELSE Len(s)

\* re.search(r'([\d,-]+\.\d+)$', s).group(1), or <<>> when there is no match
AmountMatch(s) ==
    LET e  == DollarPos(s)
        nd == RunBack(s, e, Digits)
        d  == e - nd
        na == IF d >= 1 /\ s[d] = "." THEN RunBack(s, d - 1, AmountChars) ELSE 0
    IN  IF nd >= 1 /\ na >= 1 THEN SubSeq(s, d - na, e) ELSE <<>>

\* str.replace(',', '')
RemoveCommas(s) == SelectSeq(s, LAMBDA c : c # ",")

\* Decimal(s) for a text of digits, minus signs and one point followed by digits:
\* a minus sign is accepted only as the first character
DecimalOf(s) ==
    LET neg  == Len(s) > 0 /\ s[1] = "-"
        body == IF neg THEN Tail(s) ELSE s
        frac == RunBack(body, Len(body), Digits)
        ip   == SubSeq(body, 1, Len(body) - frac - 1)
        fp   == SubSeq(body, Len(body) - frac + 1, Len(body))
    IN  IF \E k \in 1..Len(body) : body[k] = "-"
        THEN Raise("InvalidOperation")
        ELSE Ok(Dec(IF neg THEN 1 ELSE 0, NatOf(ip \o fp), -frac))

\* a clean_amount that answers zero where no amount is found
clean_amount_Zero(amount_str) ==
    IF ~IsStr(amount_str) THEN Raise("AttributeError")
    ELSE LET m == AmountMatch(NormalizeMinus(amount_str))
         IN  IF m = <<>> THEN Ok(Dec(0, 0, 0))
             ELSE DecimalOf(RemoveCommas(m))

clean_amount(amount_str) ==
    IF ~IsStr(amount_str) THEN Raise("AttributeError")
    ELSE LET m == AmountMatch(NormalizeMinus(amount_str))
         IN  IF m = <<>> THEN Raise("ValueError")
             ELSE DecimalOf(RemoveCommas(m))

---------------------------------------------------------------------------
(* Data frames: [columns |-> the labels, rows |-> the rows of cells].  The   *)
(* row index pandas keeps beside the rows is never read by the pipeline's    *)
(* positional accesses and is not modelled.                                  *)

DataFrame(cols, rws) == [columns |-> cols, rows |-> rws]

\* a column label that is not text: the integer labels pandas gives a frame
\* built without column names
IntLabels == {<<"#0">>, <<"#1">>, <<"#2">>, <<"#3">>}

IsStrLabel(c) == c \notin IntLabels

T_nan == <<"n", "a", "n">>

\* astype(str) / str(): the float NaN becomes the text 'nan'
astype_str(x) == IF x = NaN THEN T_nan ELSE x

\* the positions 1..n as a sequence
Positions(n) == [k \in 1..n |-> k]

\* the first non-ok result of a sequence of results, NoResult when all are ok
RECURSIVE FirstError(_)
FirstError(rs) ==
    IF rs = <<>> THEN NoResult
    ELSE IF ~IsOk(Head(rs)) THEN Head(rs) ELSE FirstError(Tail(rs))

---------------------------------------------------------------------------
(* clean_columns *)

\* while j < len(df.columns) and df.columns[j] == col_name: j += 1
RECURSIVE RunEnd(_, _, _)
RunEnd(cols, col_name, j) ==
    IF j <= Len(cols) /\ cols[j] = col_name
    THEN RunEnd(cols, col_name, j + 1) ELSE j

\* combined_col for one row: the cells i..j-1 as text, joined by " "
RECURSIVE CombinedCell(_, _, _)
CombinedCell(row, i, j) ==
    IF j = i + 1 THEN astype_str(row[i])
    ELSE CombinedCell(row, i, j - 1) \o <<" ">> \o astype_str(row[j - 1])

\* Series.replace('nan', '', regex=False): a value that is 'nan' as a whole
ReplaceNan(v) == IF v = T_nan THEN <<>> ELSE v

\* new_df[col_name] = vals: a new label is appended; an existing label keeps
\* its place and has its values overwritten
SetColumn(new_df, col_name, vals) ==
    LET n == Len(new_df.columns)
    IN  IF \E p \in 1..n : new_df.columns[p] = col_name
        THEN LET p == CHOOSE q \in 1..n : new_df.columns[q] = col_name
             IN  DataFrame(new_df.columns,
                           [r \in 1..Len(new_df.rows) |->
                               [new_df.rows[r] EXCEPT ![p] = vals[r]]])
        ELSE DataFrame(Append(new_df.columns, col_name),
                       [r \in 1..Len(new_df.rows) |->
                           Append(new_df.rows[r], vals[r])])

RECURSIVE CleanFrom(_, _, _)
CleanFrom(d, i, new_df) ==
    IF i > Len(d.columns) THEN new_df
    ELSE LET col_name == d.columns[i]
             j == RunEnd(d.columns, col_name, i + 1)
             combined_col == [r \in 1..Len(d.rows) |->
                                ReplaceNan(CombinedCell(d.rows[r], i, j))]
         IN  CleanFrom(d, j, SetColumn(new_df, col_name, combined_col))

clean_columns(d) ==
    CleanFrom(d, 1, DataFrame(<<>>, [r \in 1..Len(d.rows) |-> <<>>]))

---------------------------------------------------------------------------
(* validate_transaction_table_columns *)

LowerLetters ==
    <<"a", "b", "c", "d", "e", "f", "g", "h", "i", "j", "k", "l", "m",
      "n", "o", "p", "q", "r", "s", "t", "u", "v", "w", "x", "y", "z">>
UpperLetters ==
    <<"A", "B", "C", "D", "E", "F", "G", "H", "I", "J", "K", "L", "M",
      "N", "O", "P", "Q", "R", "S", "T", "U", "V", "W", "X", "Y", "Z">>

\* str.upper
Upper(s) ==
    [k \in 1..Len(s) |->
        IF \E q \in 1..26 : LowerLetters[q] = s[k]
        THEN UpperLetters[CHOOSE q \in 1..26 : LowerLetters[q] = s[k]]
        ELSE s[k]]

\* keyword in text
Contains(s, kw) ==
    \E k \in 1..(Len(s) - Len(kw) + 1) : SubSeq(s, k, k + Len(kw) - 1) = kw

KW_TRANS_DATE == <<"T", "R", "A", "N", "S", ".", " ", "D", "A", "T", "E">>
KW_POSTING_DATE ==
    <<"P", "O", "S", "T", "I", "N", "G", " ", "D", "A", "T", "E">>
KW_DESCRIPTION == <<"D", "E", "S", "C", "R", "I", "P", "T", "I", "O", "N">>
KW_AMOUNT == <<"A", "M", "O", "U", "N", "T">>
KW_BAHT == <<"B", "A", "H", "T">>

expected_columns == 4

expected_keywords ==
    <<{KW_TRANS_DATE}, {KW_POSTING_DATE}, {KW_DESCRIPTION}, {KW_AMOUNT, KW_BAHT}>>

\* the loop over zip(df.columns, expected_keywords), from column k on
RECURSIVE CheckHeaders(_, _)
CheckHeaders(cols, k) ==
    IF k > Len(expected_keywords) THEN Ok(TRUE)
    ELSE IF ~IsStrLabel(cols[k]) THEN Raise("AttributeError")
    ELSE IF ~(\A kw \in expected_keywords[k] : Contains(Upper(cols[k]), kw))
         THEN Ok(FALSE)
         ELSE CheckHeaders(cols, k + 1)

validate_transaction_table_columns(d) ==
    IF Len(d.columns) # expected_columns THEN Ok(FALSE)
    ELSE CheckHeaders(d.columns, 1)

---------------------------------------------------------------------------
(* pd.to_datetime(x, format='%d/%m/%y') *)

NaT == [kind |-> "NaT"]
Date(y, m, d) == [kind |-> "date", y |-> y, m |-> m, d |-> d]

\* the texts the parser reads as a missing date
NatStrings ==
    {<<>>, <<"N", "a", "T">>, <<"n", "a", "t">>, <<"N", "A", "T">>,
     <<"n", "a", "n">>, <<"N", "a", "N">>, <<"N", "A", "N">>}

IsLeap(y) == y % 4 = 0 /\ (y % 100 # 0 \/ y % 400 = 0)

DaysInMonth(m, y) ==
    IF m = 2 THEN (IF IsLeap(y) THEN 29 ELSE 28)
    ELSE IF m \in {4, 6, 9, 11} THEN 30 ELSE 31

AllDigits(s) == \A k \in 1..Len(s) : s[k] \in Digits

\* the date a text denotes under %d/%m/%y (one or two digits of day and of
\* month, two digits of year, 00..68 read as 20xx), or NaT when it denotes none
ParseDate(s) ==
    LET shapes == {ab \in (1..2) \X (1..2) :
                      /\ Len(s) = ab[1] + ab[2] + 4
                      /\ s[ab[1] + 1] = "/"
                      /\ s[ab[1] + ab[2] + 2] = "/"
                      /\ AllDigits(SubSeq(s, 1, ab[1]))
                      /\ AllDigits(SubSeq(s, ab[1] + 2, ab[1] + ab[2] + 1))
                      /\ AllDigits(SubSeq(s, Len(s) - 1, Len(s)))}
    IN  IF shapes = {} THEN NaT
        ELSE LET ab == CHOOSE x \in shapes : TRUE
                 d  == NatOf(SubSeq(s, 1, ab[1]))
                 m  == NatOf(SubSeq(s, ab[1] + 2, ab[1] + ab[2] + 1))
                 yy == NatOf(SubSeq(s, Len(s) - 1, Len(s)))
                 y  == IF yy < 69 THEN 2000 + yy ELSE 1900 + yy
             IN  IF m \in 1..12 /\ d >= 1 /\ d <= DaysInMonth(m, y)
                 THEN Date(y, m, d) ELSE NaT

\* errors='coerce' gives NaT where errors='raise' (the default) raises
to_datetime(x, coerce) ==
    IF x = NaN \/ x \in NatStrings THEN Ok(NaT)
    ELSE IF ParseDate(x) # NaT THEN Ok(ParseDate(x))
    ELSE IF coerce THEN Ok(NaT) ELSE Raise("ValueError")

---------------------------------------------------------------------------
(* clean_transaction_data *)

\* a date test that looks at the digits and the slashes only
is_valid_date_Shape(date_str) ==
    /\ date_str # NaN
    /\ Len(date_str) = 8
    /\ \A k \in 1..8 : IF k \in {3, 6} THEN date_str[k] = "/"
                        ELSE date_str[k] \in Digits

is_valid_date(date_str) == to_datetime(date_str, TRUE).val # NaT

\* an amount test that every cell passes
is_valid_amount_Any(amount_str) == TRUE

is_valid_amount(amount_str) == IsOk(clean_amount(astype_str(amount_str)))

\* a null test that lets every row through
DropNullRows_Kept(rws) == rws

\* df[df.notna().all(axis=1)]
DropNullRows(rws) ==
    SelectSeq(rws, LAMBDA r : \A k \in 1..Len(r) : r[k] # NaN)

\* df.drop(df.columns[[1]], axis=1): by label, so every column of that label
DropSecondColumn(d) ==
    LET keep == SelectSeq(Positions(Len(d.columns)),
                          LAMBDA k : d.columns[k] # d.columns[2])
    IN  DataFrame([p \in 1..Len(keep) |-> d.columns[keep[p]]],
                  [r \in 1..Len(d.rows) |->
                      [p \in 1..Len(keep) |-> d.rows[r][keep[p]]]])

clean_transaction_data(d) ==
    IF Len(d.columns) < 2 THEN Raise("IndexError")
    ELSE LET d2 == DropSecondColumn(DataFrame(d.columns, DropNullRows(d.rows)))
         IN  IF Len(d2.columns) = 0 THEN Raise("IndexError")
             ELSE Ok(DataFrame(d2.columns,
                               SelectSeq(d2.rows,
                                   LAMBDA r : /\ is_valid_date(r[1])
                                              /\ is_valid_amount(r[Len(r)]))))

---------------------------------------------------------------------------
(* convert_data_types *)

\* a convert_data_types that puts the text between the two columns in capitals
convert_data_types_Capitals(d) ==
    LET n     == Len(d.columns)
        dates == [r \in 1..Len(d.rows) |-> to_datetime(d.rows[r][1], FALSE)]
        amts  == [r \in 1..Len(d.rows) |->
                     IF n = 1 THEN Raise("AttributeError")
                     ELSE clean_amount(d.rows[r][n])]
    IN  IF n = 0 THEN Raise("IndexError")
        ELSE IF FirstError(dates) # NoResult THEN FirstError(dates)
        ELSE IF FirstError(amts) # NoResult THEN FirstError(amts)
        ELSE Ok(DataFrame(d.columns,
                          [r \in 1..Len(d.rows) |->
                              [k \in 1..n |->
                                  IF k = 1 THEN dates[r].val
                                  ELSE IF k = n THEN amts[r].val
                                  ELSE Upper(d.rows[r][k])]]))

convert_data_types(d) ==
    LET n     == Len(d.columns)
        dates == [r \in 1..Len(d.rows) |-> to_datetime(d.rows[r][1], FALSE)]
        amts  == [r \in 1..Len(d.rows) |->
                     IF n = 1 THEN Raise("AttributeError")
                     ELSE clean_amount(d.rows[r][n])]
    IN  IF n = 0 THEN Raise("IndexError")
        ELSE IF FirstError(dates) # NoResult THEN FirstError(dates)
        ELSE IF FirstError(amts) # NoResult THEN FirstError(amts)
        ELSE Ok(DataFrame(d.columns,
                          [r \in 1..Len(d.rows) |->
                              [d.rows[r] EXCEPT ![1] = dates[r].val,
                                                ![n] = amts[r].val]]))

---------------------------------------------------------------------------
(* filter_payment_transactions, flip_amount_sign *)

T_Payment == <<"P", "a", "y", "m", "e", "n", "t">>

\* a filter that drops every "Payment" row, whatever the sign of its amount
filter_payment_transactions_AnySign(d) ==
    DataFrame(d.columns,
              SelectSeq(d.rows, LAMBDA r : ~StartsWith(r[2], T_Payment)))

\* a filter that reads "Payment" in any case
filter_payment_transactions_AnyCase(d) ==
    DataFrame(d.columns,
              SelectSeq(d.rows,
                  LAMBDA r : ~(/\ DecNegative(r[Len(r)])
                               /\ StartsWith(Upper(r[2]), Upper(T_Payment)))))

filter_payment_transactions(d) ==
    DataFrame(d.columns,
              SelectSeq(d.rows,
                  LAMBDA r : ~(/\ DecNegative(r[Len(r)])
                               /\ StartsWith(r[2], T_Payment))))

\* a sign flip that makes every amount negative
flip_amount_sign_Negative(d) ==
    DataFrame(d.columns,
              [r \in 1..Len(d.rows) |->
                  [d.rows[r] EXCEPT ![Len(d.columns)] = [@ EXCEPT !.sign = 1]]])

flip_amount_sign(d) ==
    DataFrame(d.columns,
              [r \in 1..Len(d.rows) |->
                  [d.rows[r] EXCEPT ![Len(d.columns)] = DecNeg(@)]])

---------------------------------------------------------------------------
(* str() of a Decimal, as the error message and the file have it *)

DigitChars == <<"0", "1", "2", "3", "4", "5", "6", "7", "8", "9">>

\* str() of a natural number
RECURSIVE DigitsOf(_)
DigitsOf(n) ==
    IF n < 10 THEN <<DigitChars[n + 1]>>
    ELSE Append(DigitsOf(n \div 10), DigitChars[(n % 10) + 1])

Zeros(n) == [k \in 1..n |-> "0"]

\* Decimal.__str__: plain notation with -exp fraction digits, scientific
\* notation once the value has six or more zeros behind the point
DecStr(d) ==
    LET ds         == DigitsOf(d.coef)
        leftdigits == d.exp + Len(ds)
        plain      == d.exp <= 0 /\ leftdigits > -6
        dotplace   == IF plain THEN leftdigits ELSE 1
        intpart    == IF dotplace <= 0 THEN <<"0">>
                      ELSE IF dotplace >= Len(ds)
                           THEN ds \o Zeros(dotplace - Len(ds))
                           ELSE SubSeq(ds, 1, dotplace)
        fracpart   == IF dotplace <= 0 THEN <<".">> \o Zeros(-dotplace) \o ds
                      ELSE IF dotplace >= Len(ds) THEN <<>>
                           ELSE <<".">> \o SubSeq(ds, dotplace + 1, Len(ds))
        e          == leftdigits - dotplace
        exppart    == IF e = 0 THEN <<>>
                      ELSE <<"E", IF e < 0 THEN "-" ELSE "+">> \o DigitsOf(Abs(e))
    IN  (IF d.sign = 1 THEN <<"-">> ELSE <<>>) \o intpart \o fracpart \o exppart

---------------------------------------------------------------------------
(* validate_transaction_totals *)

\* df.iloc[:, -1].sum(): the int 0 for no rows, else the amounts added
\* first to last, starting from the first
RECURSIVE SumAmounts(_)
SumAmounts(rws) ==
    IF rws = <<>> THEN DecZero
    ELSE LET r == rws[Len(rws)]
         IN  IF Len(rws) = 1 THEN r[Len(r)]
             ELSE DecAdd(SumAmounts(SubSeq(rws, 1, Len(rws) - 1)), r[Len(r)])

\* a validate_transaction_totals that accepts every total
validate_transaction_totals_Lenient(d, sb, eb) == Ok(TRUE)

\* a validate_transaction_totals that lets a difference of one unit of the
\* last digit pass
validate_transaction_totals_Tolerant(d, sb, eb) ==
    LET total == DecAdd(sb, SumAmounts(d.rows))
        e     == Min(total.exp, eb.exp)
    IN  IF Abs(DecScaled(total, e) - DecScaled(eb, e)) > 1
        THEN [kind |-> "ValueError",
              text |-> "Sanity check failed: Starting balance {} + total amount {} != ending balance {}",
              args |-> <<DecStr(sb), DecStr(SumAmounts(d.rows)), DecStr(eb)>>]
        ELSE Ok(TRUE)

\* raises ValueError, its message the f-string of line 138 with the str() of
\* the three amounts, or returns None
validate_transaction_totals(d, sb, eb) ==
    LET total_amount == SumAmounts(d.rows)
    IN  IF ~DecEq(DecAdd(sb, total_amount), eb)
        THEN [kind |-> "ValueError",
              text |-> "Sanity check failed: Starting balance {} + total amount {} != ending balance {}",
              args |-> <<DecStr(sb), DecStr(total_amount), DecStr(eb)>>]
        ELSE Ok(TRUE)

---------------------------------------------------------------------------
(* save_to_csv: the file *)

NoFile == [kind |-> "nofile"]

\* the file df.to_csv writes: the labels, then every row with its amount as
\* text (the date cell is kept as the date it holds)
to_csv(d) ==
    DataFrame(d.columns,
              [r \in 1..Len(d.rows) |->
                  [d.rows[r] EXCEPT ![Len(d.columns)] = DecStr(@)]])

---------------------------------------------------------------------------
(* pd.concat *)

\* the labels of cols that acc lacks, appended to acc in their order
RECURSIVE AddLabels(_, _)
AddLabels(acc, cols) ==
    IF cols = <<>> THEN acc
    ELSE AddLabels(IF \E p \in 1..Len(acc) : acc[p] = Head(cols)
                   THEN acc ELSE Append(acc, Head(cols)),
                   Tail(cols))

RECURSIVE UnionLabels(_)
UnionLabels(dfs) ==
    IF dfs = <<>> THEN <<>>
    ELSE AddLabels(UnionLabels(SubSeq(dfs, 1, Len(dfs) - 1)),
                   dfs[Len(dfs)].columns)

\* a row of d laid out under the labels u: NaN under a label d does not have
Reindex(d, row, u) ==
    [p \in 1..Len(u) |->
        IF \E k \in 1..Len(d.columns) : d.columns[k] = u[p]
        THEN row[CHOOSE k \in 1..Len(d.columns) : d.columns[k] = u[p]]
        ELSE NaN]

RECURSIVE ConcatRows(_, _)
ConcatRows(dfs, u) ==
    IF dfs = <<>> THEN <<>>
    ELSE LET d == Head(dfs)
         IN  [r \in 1..Len(d.rows) |-> Reindex(d, d.rows[r], u)]
                 \o ConcatRows(Tail(dfs), u)

\* pd.concat(dfs): the rows in order under the union of the labels
concat(dfs) == DataFrame(UnionLabels(dfs), ConcatRows(dfs, UnionLabels(dfs)))

---------------------------------------------------------------------------
(* The documents process_pdf is run on: what doc.tables can hold.            *)

H_TRANS == <<"T", "R", "A", "N", "S", ".", " ", "D", "A", "T", "E">>
H_Trans == <<"T", "r", "a", "n", "s", ".", " ", "D", "a", "t", "e">>
H_POSTING == <<"P", "O", "S", "T", "I", "N", "G", " ", "D", "A", "T", "E">>
H_DESCRIPTION == <<"D", "E", "S", "C", "R", "I", "P", "T", "I", "O", "N">>
H_AMOUNT_BAHT == <<"A", "M", "O", "U", "N", "T", " ", "B", "A", "H", "T">>
H_AMOUNT_BAHT_P ==
    <<"A", "M", "O", "U", "N", "T", " ", "(", "B", "A", "H", "T", ")">>
H_AMOUNT == <<"A", "M", "O", "U", "N", "T">>
T_payment == <<"p", "a", "y", "m", "e", "n", "t">>
T_Buy == <<"B", "u", "y">>
T_Bal == <<"B", "a", "l">>
D_020123 == <<"0", "2", "/", "0", "1", "/", "2", "3">>
D_030123 == <<"0", "3", "/", "0", "1", "/", "2", "3">>
D_040123 == <<"0", "4", "/", "0", "1", "/", "2", "3">>
D_310223 == <<"3", "1", "/", "0", "2", "/", "2", "3">>
A_1_00 == <<"1", ".", "0", "0">>
A_m1_00 == <<"-", "1", ".", "0", "0">>
A_ms1_00 == <<"-", " ", "1", ".", "0", "0">>
A_0_0 == <<"0", ".", "0">>
A_1m1_00 == <<"1", "-", "1", ".", "0", "0">>

\* rows as the statement layout has them: date, posting date, description,
\* amount
Row_Balance    == <<<<>>, <<>>, T_Bal, A_1_00>>
Row_Purchase   == <<D_020123, D_020123, T_Buy, A_1_00>>
Row_Payment    == <<D_030123, D_030123, T_Payment, A_m1_00>>
Row_payment    == <<D_030123, D_030123, T_payment, A_ms1_00>>
Row_PaymentNil == <<D_040123, D_040123, T_Payment, A_0_0>>
Row_BadAmount  == <<D_310223, NaN, T_Bal, A_1m1_00>>

RowList ==
    <<Row_Balance, Row_Purchase, Row_Payment, Row_payment, Row_PaymentNil,
      Row_BadAmount>>

Header_OK      == <<H_TRANS, H_POSTING, H_DESCRIPTION, H_AMOUNT_BAHT>>
Header_Paren   == <<H_TRANS, H_POSTING, H_DESCRIPTION, H_AMOUNT_BAHT_P>>
Header_Split   == <<H_Trans, H_POSTING, H_DESCRIPTION, H_DESCRIPTION,
                    H_AMOUNT_BAHT>>
Header_3       == <<H_TRANS, H_POSTING, H_DESCRIPTION>>
Header_NoBaht  == <<H_TRANS, H_POSTING, H_DESCRIPTION, H_AMOUNT>>
Header_Int     == <<<<"#0">>, <<"#1">>, <<"#2">>, <<"#3">>>>

\* a statement row under a header: the description spread over two cells
\* under the split header, the amount cut off under the 3-column header
Fit(row, hdr) ==
    IF Len(hdr) = 5 THEN <<row[1], row[2], row[3], <<>>, row[4]>>
    ELSE IF Len(hdr) = 3 THEN <<row[1], row[2], row[3]>>
    ELSE row

MkTable(hdr, rws) == DataFrame(hdr, [r \in 1..Len(rws) |-> Fit(rws[r], hdr)])

\* all sequences over S of length at most n
RECURSIVE SeqsUpTo(_, _)
SeqsUpTo(S, n) ==
    IF n = 0 THEN {<<>>}
    ELSE LET P == SeqsUpTo(S, n - 1)
         IN  P \cup {Append(q, x) : q \in {t \in P : Len(t) = n - 1}, x \in S}

\* the statements: up to MaxRows rows, each named by its place in RowList
Statements == SeqsUpTo(1..Len(RowList), MaxRows)

RowsOf(st) == [k \in 1..Len(st) |-> RowList[st[k]]]

Layout(name) ==
    CASE name = "ok"       -> <<Header_OK>>
      [] name = "split"    -> <<Header_Split>>
      [] name = "3"        -> <<Header_3>>
      [] name = "nobaht"   -> <<Header_NoBaht>>
      [] name = "int"      -> <<Header_Int>>
      [] name = "ok+ok"    -> <<Header_OK, Header_OK>>
      [] name = "3+ok"     -> <<Header_3, Header_OK>>
      [] name = "int+ok"   -> <<Header_Int, Header_OK>>
      [] name = "ok+paren" -> <<Header_OK, Header_Paren>>

\* the documents, each named by <<layout, statement, rows of the first table>>:
\* no table; one table, accepted or rejected; two tables that share the rows
\* of a statement (where the second header differs, the first table holds the
\* first row; a rejected first table holds at most one row, and a table
\* without a header row holds a row, its frame having no column otherwise)
DocNames ==
    {<<"none", <<>>, 0>>}
    \cup {<<l, st, Len(st)>> : l \in {"ok", "split"}, st \in Statements}
    \cup {<<l, <<i>>, 1>> : l \in {"3", "nobaht", "int"}, i \in 1..Len(RowList)}
    \cup UNION {{<<"ok+ok", st, k>> : k \in 0..Len(st)} : st \in Statements}
    \cup UNION {{<<"3+ok", st, k>> : k \in {j \in 0..1 : j <= Len(st)}} :
                 st \in Statements}
    \cup {<<"int+ok", st, 1>> : st \in {t \in Statements : Len(t) >= 1}}
    \cup {<<"ok+paren", st, 1>> : st \in {t \in Statements : Len(t) >= 1}}

\* doc.tables of the document named dn
Doc(dn) ==
    LET rs == RowsOf(dn[2])
        k  == dn[3]
    IN  IF dn[1] = "none" THEN <<>>
        ELSE LET l == Layout(dn[1])
             IN  IF Len(l) = 1 THEN <<MkTable(l[1], rs)>>
                 ELSE <<MkTable(l[1], SubSeq(rs, 1, k)),
                        MkTable(l[2], SubSeq(rs, k + 1, Len(rs)))>>

---------------------------------------------------------------------------
(* process_pdf *)

NoFrame == [kind |-> "noframe"]

MSG_NO_TABLES      == "No tables found in the document"
MSG_SKIP_COLUMNS   == "Table has the wrong number of columns, skipping"
MSG_SKIP_HEADER    == "Table has incorrect header"
MSG_NO_TRANSACTION == "No transaction tables found in the document"
MSG_SAVED          == "Saved result to"
MSG_ERROR          == "Error processing document"

\* an except clause that names ValueError alone
Catches_ValueErrorOnly(e) == e = "ValueError"

\* except Exception: every exception the steps raise is an Exception
Catches(e) == e \in {"ConversionError", "AttributeError", "ValueError",
                     "InvalidOperation", "IndexError"}

PInit ==
    /\ pc = "convert"
    /\ \E dn \in DocNames : tables = Doc(dn)
    /\ idx = 0
    /\ df = NoFrame
    /\ transaction_dfs = <<>>
    /\ combined = NoFrame
    /\ starting_balance = NoResult
    /\ ending_balance = NoResult
    /\ csv = NoFile
    /\ exc = ""
    /\ propagated = FALSE
    /\ out = <<>>
    /\ stages = <<>>
    /\ raw_combined = NoFrame
    /\ sanitized = NoFrame

UIdle == fn = "" /\ arg = <<>> /\ ret = NoResult

\* Python's None
None == [kind |-> "None"]

\* main is not running
MIdle ==
    /\ mpc = "idle"
    /\ args = <<>>
    /\ pdf_bytes = NoResult
    /\ output_dir = FALSE
    /\ temp_pdf = None

\* st.session_state as the first lines of the interactive main leave it; the
\* keys current_filename and original_filename are absent until a file is
\* processed ("" stands for an absent name)
NewSession ==
    [pdf_processed |-> FALSE, tables_data |-> <<>>, edited_tables |-> <<>>,
     initial_selection_done |-> FALSE, current_filename |-> "",
     original_filename |-> "", tables |-> <<>>]

NotSaved == [kind |-> "notsaved"]

\* the interactive application is not running
SIdle ==
    /\ uploaded_file = ""
    /\ password_input = ""
    /\ session_state = NewSession
    /\ select = <<>>
    /\ selected_tables = NotSaved
    /\ combined_df = NoFrame
    /\ report = ""
    /\ displayed = <<>>

CIdle == MIdle /\ SIdle

\* a step raises e: control goes to the except clause
Throw(e) == pc' = "except" /\ exc' = e

\* converter.convert(pdf_path) returns the document
ConvertOk ==
    /\ pc = "convert"
    /\ pc' = "tables"
    /\ stages' = Append(stages, "Extracted")
    /\ UNCHANGED <<tables, idx, df, transaction_dfs, combined, starting_balance,
                   ending_balance, csv, exc, propagated, out, raw_combined,
                   sanitized, uvars, cvars>>

\* converter.convert(pdf_path) raises (a file that is missing or unreadable)
ConvertRaises ==
    /\ pc = "convert"
    /\ Throw("ConversionError")
    /\ UNCHANGED <<tables, idx, df, transaction_dfs, combined, starting_balance,
                   ending_balance, csv, propagated, out, stages, raw_combined,
                   sanitized, uvars, cvars>>

\* if not doc.tables: print, return
CheckTables ==
    /\ pc = "tables"
    /\ IF tables = <<>>
       THEN /\ out' = Append(out, MSG_NO_TABLES)
            /\ pc' = "done"
            /\ idx' = idx
       ELSE /\ out' = out
            /\ pc' = "merge"
            /\ idx' = 1
    /\ UNCHANGED <<tables, df, transaction_dfs, combined, starting_balance,
                   ending_balance, csv, exc, propagated, stages, raw_combined,
                   sanitized, uvars, cvars>>

\* df = table.export_to_dataframe(); df = clean_columns(df)
MergeTable ==
    /\ pc = "merge"
    /\ df' = clean_columns(tables[idx])
    /\ pc' = "validate"
    /\ stages' = Append(stages, "Merged")
    /\ UNCHANGED <<tables, idx, transaction_dfs, combined, starting_balance,
                   ending_balance, csv, exc, propagated, out, raw_combined,
                   sanitized, uvars, cvars>>

\* if not validate_transaction_table_columns(df, i): continue
\* transaction_dfs.append(df); then the next table, or the end of the loop
ValidateTable ==
    /\ pc = "validate"
    /\ LET r == validate_transaction_table_columns(df)
       IN  IF ~IsOk(r)
           THEN /\ Throw(r.kind)
                /\ UNCHANGED <<idx, transaction_dfs, out, stages>>
           ELSE /\ transaction_dfs' =
                       IF r.val THEN Append(transaction_dfs, df)
                       ELSE transaction_dfs
                /\ out' = IF r.val THEN out
                          ELSE IF Len(df.columns) # expected_columns
                               THEN Append(out, MSG_SKIP_COLUMNS)
                               ELSE Append(out, MSG_SKIP_HEADER)
                /\ stages' = Append(stages, "SchemaFiltered")
                /\ idx' = idx + 1
                /\ pc' = IF idx < Len(tables) THEN "merge" ELSE "accepted"
                /\ exc' = exc
    /\ UNCHANGED <<tables, df, combined, starting_balance, ending_balance, csv,
                   propagated, raw_combined, sanitized, uvars, cvars>>

\* a check of the accepted tables that goes on to the concatenation with none
CheckAccepted_Proceed ==
    /\ pc = "accepted"
    /\ out' = out
    /\ pc' = "concat"
    /\ UNCHANGED <<tables, idx, df, transaction_dfs, combined, starting_balance,
                   ending_balance, csv, exc, propagated, stages, raw_combined,
                   sanitized, uvars, cvars>>

\* if not transaction_dfs: print, return
CheckAccepted ==
    /\ pc = "accepted"
    /\ IF transaction_dfs = <<>>
       THEN /\ out' = Append(out, MSG_NO_TRANSACTION)
            /\ pc' = "done"
       ELSE /\ out' = out
            /\ pc' = "concat"
    /\ UNCHANGED <<tables, idx, df, transaction_dfs, combined, starting_balance,
                   ending_balance, csv, exc, propagated, stages, raw_combined,
                   sanitized, uvars, cvars>>

\* combined_transaction_df = pd.concat(transaction_dfs)
Concat ==
    /\ pc = "concat"
    /\ combined' = concat(transaction_dfs)
    /\ raw_combined' = combined'
    /\ stages' = Append(stages, "Concatenated")
    /\ pc' = "anchor"
    /\ UNCHANGED <<tables, idx, df, transaction_dfs, starting_balance,
                   ending_balance, csv, exc, propagated, out, sanitized, uvars, cvars>>

\* anchors read from the rows that sanitization leaves
Anchor_Sanitized ==
    /\ pc = "anchor"
    /\ LET c  == IF IsOk(clean_transaction_data(combined))
                 THEN clean_transaction_data(combined).val
                 ELSE combined
           n  == Len(c.rows)
           w  == Len(c.columns)
           sb == IF n = 0 THEN Raise("IndexError")
                 ELSE clean_amount(astype_str(c.rows[1][w]))
           eb == IF n = 0 THEN Raise("IndexError")
                 ELSE clean_amount(astype_str(c.rows[n][w]))
       IN  IF ~IsOk(sb)
           THEN /\ Throw(sb.kind)
                /\ UNCHANGED <<starting_balance, ending_balance, stages>>
           ELSE IF ~IsOk(eb)
           THEN /\ Throw(eb.kind)
                /\ starting_balance' = sb
                /\ UNCHANGED <<ending_balance, stages>>
           ELSE /\ starting_balance' = sb
                /\ ending_balance' = eb
                /\ stages' = Append(stages, "Anchored")
                /\ pc' = "clean"
                /\ exc' = exc
    /\ UNCHANGED <<tables, idx, df, transaction_dfs, combined, csv, propagated,
                   out, raw_combined, sanitized, uvars, cvars>>

\* anchors that take a balance of zero where the amount cell does not parse
Anchor_Absorbing ==
    /\ pc = "anchor"
    /\ LET n  == Len(combined.rows)
           w  == Len(combined.columns)
           sb == IF n = 0 THEN Raise("IndexError")
                 ELSE clean_amount(combined.rows[1][w])
           eb == IF n = 0 THEN Raise("IndexError")
                 ELSE clean_amount(combined.rows[n][w])
       IN  /\ starting_balance' = IF IsOk(sb) THEN sb ELSE Ok(DecZero)
           /\ ending_balance' = IF IsOk(eb) THEN eb ELSE Ok(DecZero)
           /\ stages' = Append(stages, "Anchored")
           /\ pc' = "clean"
           /\ exc' = exc
    /\ UNCHANGED <<tables, idx, df, transaction_dfs, combined, csv, propagated,
                   out, raw_combined, sanitized, uvars, cvars>>

\* starting_balance = clean_amount(combined_transaction_df.iloc[0, -1])
\* ending_balance = clean_amount(combined_transaction_df.iloc[-1, -1])
Anchor ==
    /\ pc = "anchor"
    /\ LET n  == Len(combined.rows)
           w  == Len(combined.columns)
           sb == IF n = 0 THEN Raise("IndexError")
                 ELSE clean_amount(combined.rows[1][w])
           eb == IF n = 0 THEN Raise("IndexError")
                 ELSE clean_amount(combined.rows[n][w])
       IN  IF ~IsOk(sb)
           THEN /\ Throw(sb.kind)
                /\ UNCHANGED <<starting_balance, ending_balance, stages>>
           ELSE IF ~IsOk(eb)
           THEN /\ Throw(eb.kind)
                /\ starting_balance' = sb
                /\ UNCHANGED <<ending_balance, stages>>
           ELSE /\ starting_balance' = sb
                /\ ending_balance' = eb
                /\ stages' = Append(stages, "Anchored")
                /\ pc' = "clean"
                /\ exc' = exc
    /\ UNCHANGED <<tables, idx, df, transaction_dfs, combined, csv, propagated,
                   out, raw_combined, sanitized, uvars, cvars>>

\* combined_transaction_df = clean_transaction_data(combined_transaction_df)
Sanitize ==
    /\ pc = "clean"
    /\ LET r == clean_transaction_data(combined)
       IN  IF ~IsOk(r)
           THEN /\ Throw(r.kind)
                /\ UNCHANGED <<combined, stages>>
           ELSE /\ combined' = r.val
                /\ stages' = Append(stages, "Sanitized")
                /\ pc' = "convert_types"
                /\ exc' = exc
    /\ UNCHANGED <<tables, idx, df, transaction_dfs, starting_balance,
                   ending_balance, csv, propagated, out, raw_combined,
                   sanitized, uvars, cvars>>

\* combined_transaction_df = convert_data_types(combined_transaction_df)
Coerce ==
    /\ pc = "convert_types"
    /\ LET r == convert_data_types(combined)
       IN  IF ~IsOk(r)
           THEN /\ Throw(r.kind)
                /\ UNCHANGED <<combined, stages, sanitized>>
           ELSE /\ combined' = r.val
                /\ sanitized' = r.val
                /\ stages' = Append(stages, "Coerced")
                /\ pc' = "totals"
                /\ exc' = exc
    /\ UNCHANGED <<tables, idx, df, transaction_dfs, starting_balance,
                   ending_balance, csv, propagated, out, raw_combined, uvars, cvars>>

\* a balance check whose failure does not stop the run
Reconcile_Continue ==
    /\ pc = "totals"
    /\ stages' = Append(stages, "Reconciled")
    /\ pc' = "filter"
    /\ exc' = exc
    /\ UNCHANGED <<tables, idx, df, transaction_dfs, combined, starting_balance,
                   ending_balance, csv, propagated, out, raw_combined,
                   sanitized, uvars, cvars>>

\* a balance check after which the payment filter is passed over
Reconcile_SkipFilter ==
    /\ pc = "totals"
    /\ LET r == validate_transaction_totals(combined, starting_balance.val,
                                            ending_balance.val)
       IN  IF ~IsOk(r)
           THEN /\ Throw(r.kind)
                /\ UNCHANGED stages
           ELSE /\ stages' = Append(stages, "Reconciled")
                /\ pc' = "flip"
                /\ exc' = exc
    /\ UNCHANGED <<tables, idx, df, transaction_dfs, combined, starting_balance,
                   ending_balance, csv, propagated, out, raw_combined,
                   sanitized, uvars, cvars>>

\* validate_transaction_totals(combined_transaction_df, starting_balance,
\*                             ending_balance)
Reconcile ==
    /\ pc = "totals"
    /\ LET r == validate_transaction_totals(combined, starting_balance.val,
                                            ending_balance.val)
       IN  IF ~IsOk(r)
           THEN /\ Throw(r.kind)
                /\ UNCHANGED stages
           ELSE /\ stages' = Append(stages, "Reconciled")
                /\ pc' = "filter"
                /\ exc' = exc
    /\ UNCHANGED <<tables, idx, df, transaction_dfs, combined, starting_balance,
                   ending_balance, csv, propagated, out, raw_combined,
                   sanitized, uvars, cvars>>

\* combined_transaction_df = filter_payment_transactions(combined_transaction_df)
FilterPayments ==
    /\ pc = "filter"
    /\ combined' = filter_payment_transactions(combined)
    /\ stages' = Append(stages, "Filtered")
    /\ pc' = "flip"
    /\ UNCHANGED <<tables, idx, df, transaction_dfs, starting_balance,
                   ending_balance, csv, exc, propagated, out, raw_combined,
                   sanitized, uvars, cvars>>

\* combined_transaction_df = flip_amount_sign(combined_transaction_df)
FlipSign ==
    /\ pc = "flip"
    /\ combined' = flip_amount_sign(combined)
    /\ stages' = Append(stages, "SignFlipped")
    /\ pc' = "save"
    /\ UNCHANGED <<tables, idx, df, transaction_dfs, starting_balance,
                   ending_balance, csv, exc, propagated, out, raw_combined,
                   sanitized, uvars, cvars>>

\* save_to_csv(combined_transaction_df, output_dir, input_filename), into the
\* output directory main has created
Save ==
    /\ pc = "save"
    /\ csv' = to_csv(combined)
    /\ out' = Append(out, MSG_SAVED)
    /\ stages' = Append(stages, "Exported")
    /\ pc' = "done"
    /\ UNCHANGED <<tables, idx, df, transaction_dfs, combined, starting_balance,
                   ending_balance, exc, propagated, raw_combined, sanitized,
                   uvars, cvars>>

\* except Exception as e: print, and return
HandleException ==
    /\ pc = "except"
    /\ IF Catches(exc)
       THEN /\ out' = Append(out, MSG_ERROR)
            /\ propagated' = FALSE
       ELSE /\ out' = out
            /\ propagated' = TRUE
    /\ pc' = "done"
    /\ UNCHANGED <<tables, idx, df, transaction_dfs, combined, starting_balance,
                   ending_balance, csv, exc, stages, raw_combined, sanitized,
                   uvars, cvars>>

Init == PInit /\ UIdle /\ CIdle

Next ==
    \/ ConvertOk
    \/ ConvertRaises
    \/ CheckTables
    \/ MergeTable
    \/ ValidateTable
    \/ CheckAccepted
    \/ Concat
    \/ Anchor
    \/ Sanitize
    \/ Coerce
    \/ Reconcile
    \/ FilterPayments
    \/ FlipSign
    \/ Save
    \/ HandleException

Spec == Init /\ [][Next]_vars

---------------------------------------------------------------------------
(* The unit harness: one call of a pure function on an argument drawn from a *)
(* bounded set, process_pdf not running.                                     *)

PIdle ==
    /\ pc = "idle"
    /\ tables = <<>>
    /\ idx = 0
    /\ df = NoFrame
    /\ transaction_dfs = <<>>
    /\ combined = NoFrame
    /\ starting_balance = NoResult
    /\ ending_balance = NoResult
    /\ csv = NoFile
    /\ exc = ""
    /\ propagated = FALSE
    /\ out = <<>>
    /\ stages = <<>>
    /\ raw_combined = NoFrame
    /\ sanitized = NoFrame

\* the characters of the texts handed to clean_amount: two digits, the comma,
\* the minus sign, the point, the space, a letter and the line break
AmountAlphabet == {"0", "1", ",", "-", ".", " ", "x", "\n"}

AmountInit ==
    /\ PIdle
    /\ CIdle
    /\ fn = ""
    /\ ret = NoResult
    /\ \E n \in 0..MaxLen : arg \in [1..n -> AmountAlphabet]

CallCleanAmount ==
    /\ fn = ""
    /\ fn' = "clean_amount"
    /\ ret' = clean_amount(arg)
    /\ UNCHANGED <<arg, pvars, cvars>>

AmountNext == CallCleanAmount

SpecAmount == AmountInit /\ [][AmountNext]_vars

---------------------------------------------------------------------------
(* The trailing numeric pattern, as the specification words it. *)

\* t is: one or more digits, commas and minus signs, a point, one or more digits
IsAmountText(t) ==
    \E j \in 2..(Len(t) - 1) :
        /\ t[j] = "."
        /\ \A k \in 1..(j - 1) : t[k] \in AmountChars
        /\ \A k \in (j + 1)..Len(t) : t[k] \in Digits

\* the places from which s is an amount text up to its end
AmountSuffixes(s) == {i \in 1..Len(s) : IsAmountText(SubSeq(s, i, Len(s)))}

EndsWithAmount(s) == AmountSuffixes(s) # {}

\* the longest end of s that is an amount text
MatchedText(s) ==
    SubSeq(s, CHOOSE i \in AmountSuffixes(s) : \A k \in AmountSuffixes(s) : i <= k,
           Len(s))

\* the decimal an amount text denotes: its digits, as many fraction digits as
\* follow the point, negative when it carries a minus sign
Denoted(t) ==
    Dec(IF \E k \in 1..Len(t) : t[k] = "-" THEN 1 ELSE 0,
        NatOf(SelectSeq(t, LAMBDA c : c \in Digits)),
        -RunBack(t, Len(t), Digits))

\* t without the one line break that may end it
DropFinalBreak(t) ==
    IF Len(t) > 0 /\ t[Len(t)] = "\n" THEN SubSeq(t, 1, Len(t) - 1) ELSE t

\* b is an amount text without a sign
IsUnsignedAmount(b) == IsAmountText(b) /\ \A k \in 1..Len(b) : b[k] # "-"

Whitespace == {" ", "\n"}

\* s is a minus sign, then n >= 1 whitespace characters, then an unsigned amount
IsMinusGapAmount(s, n) ==
    /\ Len(s) > n + 1
    /\ s[1] = "-"
    /\ \A k \in 2..(n + 1) : s[k] \in Whitespace
    /\ IsUnsignedAmount(SubSeq(s, n + 2, Len(s)))

\* the result is the negation of clean_amount of the unsigned amount b
IsNegationOf(r, b) ==
    /\ IsOk(r)
    /\ IsOk(clean_amount(b))
    /\ DecEq(r.val, DecNeg(clean_amount(b).val))
    /\ r.val.exp = clean_amount(b).val.exp

---------------------------------------------------------------------------
(* Claims about clean_amount, under SpecAmount. *)

\* C7 (as claimed): for every text whose end matches the trailing numeric
\* pattern, clean_amount returns, without failing, the exact decimal the
\* matched text denotes with its commas removed and its sign applied, whatever
\* text precedes the match.  (The match is taken after the leading "- " has
\* been closed up, which is C9's subject.)
C7_EveryMatchParses ==
    (fn = "clean_amount" /\ EndsWithAmount(NormalizeMinus(arg)))
        => /\ IsOk(ret)
           /\ ret.val = Denoted(MatchedText(NormalizeMinus(arg)))

\* C7 (what the code does): the same, for the matched texts that carry a minus
\* sign at most as their first character once the commas are removed.
C7_WellSignedMatchParses ==
    (/\ fn = "clean_amount"
     /\ EndsWithAmount(NormalizeMinus(arg))
     /\ LET m == RemoveCommas(MatchedText(NormalizeMinus(arg)))
        IN  \A k \in 2..Len(m) : m[k] # "-")
        => /\ IsOk(ret)
           /\ ret.val = Denoted(MatchedText(NormalizeMinus(arg)))

\* C8 (as claimed): clean_amount fails with ValueError for every text that
\* does not end with the trailing numeric pattern.
C8_NoPatternFails ==
    (fn = "clean_amount" /\ ~EndsWithAmount(arg)) => ret.kind = "ValueError"

\* C8 (amended): clean_amount fails with ValueError, and returns no value, for
\* every text that does not end with the trailing numeric pattern once a
\* leading "- " is closed up to "-" and one final line break is set aside.
C8_NoMatchFails ==
    (fn = "clean_amount" /\ ~EndsWithAmount(DropFinalBreak(NormalizeMinus(arg))))
        => ret.kind = "ValueError"

\* C8 witness: a text with a point that no digit follows has been rejected.
C8_Witness ==
    /\ fn = "clean_amount"
    /\ Len(arg) >= 2
    /\ arg[Len(arg)] = "."
    /\ arg[1] = "1"
    /\ ret.kind = "ValueError"

\* C9 (as claimed): for every unsigned amount text b and every run of
\* whitespace, clean_amount("-" + whitespace + b) is the negation of
\* clean_amount(b).
C9_AnyWhitespace ==
    fn = "clean_amount"
        => \A n \in 1..Len(arg) :
               IsMinusGapAmount(arg, n)
                   => IsNegationOf(ret, SubSeq(arg, n + 2, Len(arg)))

\* C9 (amended): for every unsigned amount text b, clean_amount("- " + b),
\* with exactly one space behind the minus sign, is the negation of
\* clean_amount(b).
C9_OneSpace ==
    (/\ fn = "clean_amount"
     /\ StartsWith(arg, <<"-", " ">>)
     /\ IsUnsignedAmount(SubSeq(arg, 3, Len(arg))))
        => IsNegationOf(ret, SubSeq(arg, 3, Len(arg)))

\* C9 witness: "- " before an unsigned amount has given a negative amount.
C9_Witness ==
    /\ fn = "clean_amount"
    /\ StartsWith(arg, <<"-", " ">>)
    /\ IsUnsignedAmount(SubSeq(arg, 3, Len(arg)))
    /\ IsOk(ret)
    /\ DecNegative(ret.val)

---------------------------------------------------------------------------
(* The unit harness for clean_columns: one call on a frame of at most        *)
(* MaxCols columns and at most one row.                                      *)

MaxCols == 3

ColumnLabels == {<<"A">>, <<"B">>, <<"C">>}

ColumnCells == {<<"1">>, <<>>, T_nan, NaN}

ColumnsInit ==
    /\ PIdle
    /\ CIdle
    /\ fn = ""
    /\ ret = NoResult
    /\ \E n \in 0..MaxCols :
          \E cols \in [1..n -> ColumnLabels] :
             \/ arg = DataFrame(cols, <<>>)
             \/ \E cells \in [1..n -> ColumnCells] :
                   arg = DataFrame(cols, <<cells>>)

CallCleanColumns ==
    /\ fn = ""
    /\ fn' = "clean_columns"
    /\ ret' = Ok(clean_columns(arg))
    /\ UNCHANGED <<pvars, cvars, arg>>

ColumnsNext == CallCleanColumns

SpecColumns == ColumnsInit /\ [][ColumnsNext]_vars

---------------------------------------------------------------------------
(* Properties of process_pdf                                                 *)

Range(q) == {q[i] : i \in 1..Len(q)}

Last(q) == q[Len(q)]

\* the sum of the amounts of sanitized rows, each parsed from its text
RECURSIVE ParsedSum(_)
ParsedSum(rws) ==
    IF rws = <<>> THEN DecZero
    ELSE LET r == rws[Len(rws)]
         IN  DecAdd(ParsedSum(SubSeq(rws, 1, Len(rws) - 1)),
                    clean_amount(r[Len(r)]).val)

\* C1: whenever an output file has been written, the amount in the last column
\* of the first row of the concatenated frame, plus the parsed amounts of the
\* rows that survive sanitization, equals exactly the amount in the last
\* column of its last row.
C1_BalanceReconciled ==
    csv # NoFile =>
        LET w   == Len(raw_combined.columns)
            n   == Len(raw_combined.rows)
            san == clean_transaction_data(raw_combined)
        IN  /\ n >= 1
            /\ IsOk(san)
            /\ LET sb == clean_amount(raw_combined.rows[1][w])
                   eb == clean_amount(raw_combined.rows[n][w])
               IN  /\ IsOk(sb)
                   /\ IsOk(eb)
                   /\ DecEq(DecAdd(sb.val, ParsedSum(san.val.rows)), eb.val)

\* a file written for a statement whose balance moves: the opening and the
\* closing amount differ and at least two rows survive sanitization
C1_Witness ==
    /\ csv # NoFile
    /\ Len(sanitized.rows) >= 2
    /\ ~DecEq(starting_balance.val, ending_balance.val)

\* the opening amount plus the sum of the sanitized amounts differs from the
\* closing amount
BalanceFails ==
    /\ sanitized # NoFrame
    /\ ~DecEq(DecAdd(starting_balance.val, SumAmounts(sanitized.rows)),
              ending_balance.val)

\* C2: when the balance equation does not hold, the run stops at the check:
\* the failure is an exception caught at the top of process_pdf, the payment
\* filter, the sign flip and the export never run, and no file is written.
C2_MismatchAborts ==
    BalanceFails =>
        /\ csv = NoFile
        /\ Range(stages) \cap
               {"Reconciled", "Filtered", "SignFlipped", "Exported"} = {}
        /\ combined = sanitized
        /\ pc \in {"totals", "except", "done"}
        /\ ~propagated
        /\ pc = "done" => exc = "ValueError" /\ Last(out) = MSG_ERROR

\* a finished run whose balance equation failed
C2_Witness == BalanceFails /\ pc = "done"

\* table t passes the schema validation
Accepted(t) == validate_transaction_table_columns(clean_columns(t)) = Ok(TRUE)

NoneAccepted == \A i \in 1..Len(tables) : ~Accepted(tables[i])

\* the validation of some table raises instead of answering
ValidationRaises ==
    \E i \in 1..Len(tables) :
        ~IsOk(validate_transaction_table_columns(clean_columns(tables[i])))

ExtractedAndDone == pc = "done" /\ "Extracted" \in Range(stages)

\* C3: when extraction succeeds and no table passes the schema validation (the
\* table list may be empty, or hold only tables of the wrong shape), the run
\* ends with the report that no tables, or no transaction tables, were found,
\* without an exception and without an output file.
C3_NoTransactionReport ==
    ExtractedAndDone /\ NoneAccepted =>
        /\ Last(out) \in {MSG_NO_TABLES, MSG_NO_TRANSACTION}
        /\ exc = ""
        /\ csv = NoFile

\* What process_pdf does when extraction succeeds and no table passes the
\* schema validation: no exception leaves process_pdf and no file is written;
\* the report is "No tables found in the document" for an empty table list,
\* the error report when the validation of a table raised, and "No
\* transaction tables found in the document" in the remaining case.
C3_NoAcceptedTable ==
    ExtractedAndDone /\ NoneAccepted =>
        /\ csv = NoFile
        /\ ~propagated
        /\ exc = "" <=> ~ValidationRaises
        /\ Last(out) = IF tables = <<>> THEN MSG_NO_TABLES
                       ELSE IF ValidationRaises THEN MSG_ERROR
                       ELSE MSG_NO_TRANSACTION

\* a finished run over a document with tables, none of them accepted and
\* none of them failing the validation
C3_Witness ==
    /\ ExtractedAndDone
    /\ tables # <<>>
    /\ NoneAccepted
    /\ Last(out) = MSG_NO_TRANSACTION

StageOrder ==
    <<"Extracted", "Merged", "SchemaFiltered", "Concatenated", "Anchored",
      "Sanitized", "Coerced", "Reconciled", "Filtered", "SignFlipped",
      "Exported">>

Rank(st) == CHOOSE i \in 1..Len(StageOrder) : StageOrder[i] = st

\* C4, as stated: the stages run strictly in the one fixed order, each at most
\* once: a stage that has run is later in the order than every stage that ran
\* before it.
C4_FixedStageOrder ==
    \A i, j \in 1..Len(stages) : i < j => Rank(stages[i]) < Rank(stages[j])

AfterLoop == SubSeq(StageOrder, 4, Len(StageOrder))

\* C4, as the code has it: after the extraction, header merging and schema
\* filtering alternate, one pair for each table in turn; the stages from the
\* concatenation on run once each in the fixed order, and only after the pair
\* of the last table.
C4_StageOrder ==
    \E m \in 0..Len(stages) :
        LET rest == SubSeq(stages, m + 1, Len(stages))
        IN  /\ \A i \in 1..m :
                  stages[i] = IF i = 1 THEN "Extracted"
                              ELSE IF i % 2 = 0 THEN "Merged"
                              ELSE "SchemaFiltered"
            /\ m <= 1 + 2 * Len(tables)
            /\ Len(rest) <= Len(AfterLoop)
            /\ rest = SubSeq(AfterLoop, 1, Len(rest))
            /\ rest # <<>> => m = 1 + 2 * Len(tables) /\ Len(tables) >= 1

\* an export from a document of two tables: the two merge and filter pairs
\* alternate before the concatenation
C4_Witness ==
    /\ Len(tables) = 2
    /\ "Exported" \in Range(stages)

\* a negative amount on a row whose description starts with "Payment"
IsSettlement(r) == DecNegative(r[Len(r)]) /\ StartsWith(r[2], T_Payment)

\* C5: the exported rows are the sanitized rows, in their order, without the
\* rows that have a negative amount and a description starting with "Payment",
\* each with its amount negated; so no exported row has a description
\* starting with "Payment" and an amount above zero.
C5_ExportedRows ==
    "Exported" \in Range(stages) =>
        LET kept == SelectSeq(sanitized.rows, LAMBDA r : ~IsSettlement(r))
        IN  /\ Len(combined.rows) = Len(kept)
            /\ Len(csv.rows) = Len(kept)
            /\ \A i \in 1..Len(kept) :
                  LET r == combined.rows[i]
                      k == kept[i]
                  IN  /\ r[1] = k[1]
                      /\ r[2] = k[2]
                      /\ r[3].exp = k[3].exp
                      /\ DecScaled(r[3], r[3].exp) = -DecScaled(k[3], k[3].exp)
                      /\ ~(StartsWith(r[2], T_Payment)
                           /\ DecScaled(r[3], r[3].exp) > 0)

\* an export in which a payment row was dropped, a row starting with
\* "Payment" was kept for its amount of zero, and a row was kept
C5_Witness ==
    /\ "Exported" \in Range(stages)
    /\ Len(combined.rows) < Len(sanitized.rows)
    /\ \E i \in 1..Len(combined.rows) :
          StartsWith(combined.rows[i][2], T_Payment)

\* C6: no exception leaves process_pdf: whatever a step raises is caught at
\* the top level and reported as "Error processing document", and a run in
\* which a step raised has written no output file.
C6_NoExceptionEscapes ==
    /\ ~propagated
    /\ exc # "" => csv = NoFile /\ pc \in {"except", "done"}
    /\ exc # "" /\ pc = "done" => Last(out) = MSG_ERROR

\* a finished run in which a step after the concatenation raised an exception
\* other than ValueError
C6_Witness ==
    /\ pc = "done"
    /\ exc \in {"AttributeError", "InvalidOperation", "IndexError"}
    /\ "Concatenated" \in Range(stages)

---------------------------------------------------------------------------
(* Properties of clean_columns                                               *)

\* the labels with every run of equal adjacent labels reduced to one
RECURSIVE Collapse(_)
Collapse(cols) ==
    IF Len(cols) <= 1 THEN cols
    ELSE LET init == Collapse(SubSeq(cols, 1, Len(cols) - 1))
         IN  IF cols[Len(cols)] = cols[Len(cols) - 1] THEN init
             ELSE Append(init, cols[Len(cols)])

\* the number of runs that start at or before position i
RunIndex(cols, i) ==
    Cardinality({j \in 1..i : j = 1 \/ cols[j] # cols[j - 1]})

\* position i is a run of its own
Lone(cols, i) ==
    /\ i = 1 \/ cols[i - 1] # cols[i]
    /\ i = Len(cols) \/ cols[i + 1] # cols[i]

\* a cell as text, a null placeholder as the empty text
TextOf(x) == IF x \in {NaN, T_nan} THEN <<>> ELSE x

RunsCollapsed ==
    /\ ret.val.columns = Collapse(arg.columns)
    /\ Len(ret.val.rows) = Len(arg.rows)
    /\ \A k \in 1..Len(arg.rows) :
          /\ Len(ret.val.rows[k]) = Len(ret.val.columns)
          /\ \A i \in 1..Len(arg.columns) :
                Lone(arg.columns, i) =>
                    ret.val.rows[k][RunIndex(arg.columns, i)]
                        = TextOf(arg.rows[k][i])

\* C10: the header sequence of the result is that of the input with every
\* maximal run of adjacent equal labels reduced to one label, and a column
\* that was not merged keeps its place among the runs and its cell values.
C10_AdjacentRunsCollapsed == fn = "clean_columns" => RunsCollapsed

\* C10 on the frames in which no label comes back after another label
C10_SeparateLabelsCollapsed ==
    /\ fn = "clean_columns"
    /\ \A i, j \in 1..Len(arg.columns) :
          arg.columns[i] = arg.columns[j] =>
              \A k \in i..j : arg.columns[k] = arg.columns[i]
    => RunsCollapsed

\* no label comes back after another label
SeparateLabels(cols) ==
    \A i, j \in 1..Len(cols) :
        cols[i] = cols[j] => \A k \in i..j : cols[k] = cols[i]

\* the last position of the run that starts at position i
RunStop(cols, i) ==
    CHOOSE j \in i..Len(cols) :
        /\ \A k \in i..j : cols[k] = cols[i]
        /\ j = Len(cols) \/ cols[j + 1] # cols[i]

\* the texts ts joined by single spaces
RECURSIVE SpaceJoin(_)
SpaceJoin(ts) ==
    IF Len(ts) = 0 THEN <<>>
    ELSE IF Len(ts) = 1 THEN ts[1]
    ELSE SpaceJoin(SubSeq(ts, 1, Len(ts) - 1)) \o <<" ">> \o ts[Len(ts)]

\* every cell of every merged column is the join of f of its source cells
MergedCellsAre(f(_)) ==
    \A k \in 1..Len(arg.rows) :
        \A i \in 1..Len(arg.columns) :
            LET j == RunStop(arg.columns, i)
            IN  (i = 1 \/ arg.columns[i - 1] # arg.columns[i]) /\ j > i =>
                    ret.val.rows[k][RunIndex(arg.columns, i)]
                        = SpaceJoin([q \in 1..(j - i + 1) |->
                                        f(arg.rows[k][i + q - 1])])

\* C11: in every row, the cell of a merged column is the source cells of the
\* run as text, left to right, joined by single spaces, a source cell that is
\* null or the placeholder "nan" counting as the empty text.
C11_PlaceholdersEmptied ==
    fn = "clean_columns" /\ SeparateLabels(arg.columns) =>
        MergedCellsAre(TextOf)

\* C11 with the placeholders left as they are: the cell of a merged column is
\* the join of the source cells as str() gives them, a null cell as "nan"
C11_PlaceholdersKept ==
    fn = "clean_columns" /\ SeparateLabels(arg.columns) =>
        MergedCellsAre(astype_str)

---------------------------------------------------------------------------
(* The unit harness for validate_transaction_table_columns: one call on a    *)
(* frame of at most MaxWidth columns (the function reads the labels alone).  *)

MaxWidth == 4

SchemaLabels ==
    {H_TRANS, H_Trans, H_POSTING, H_DESCRIPTION, H_AMOUNT_BAHT,
     H_AMOUNT_BAHT_P, H_AMOUNT, <<"#0">>}

SchemaInit ==
    /\ PIdle
    /\ CIdle
    /\ fn = ""
    /\ ret = NoResult
    /\ \E n \in 0..MaxWidth :
          \E cols \in [1..n -> SchemaLabels] : arg = DataFrame(cols, <<>>)

CallValidateColumns ==
    /\ fn = ""
    /\ fn' = "validate_transaction_table_columns"
    /\ ret' = validate_transaction_table_columns(arg)
    /\ UNCHANGED <<pvars, cvars, arg>>

SchemaNext == CallValidateColumns

SpecSchema == SchemaInit /\ [][SchemaNext]_vars

---------------------------------------------------------------------------
(* Properties of validate_transaction_table_columns                          *)

\* the keywords position i requires
Required(i) ==
    IF i = 1 THEN {KW_TRANS_DATE}
    ELSE IF i = 2 THEN {KW_POSTING_DATE}
    ELSE IF i = 3 THEN {KW_DESCRIPTION}
    ELSE {KW_AMOUNT, KW_BAHT}

\* four columns, the upper-cased header of each containing its keywords
IsTransactionSchema(cols) ==
    /\ Len(cols) = 4
    /\ \A i \in 1..4 : \A kw \in Required(i) : Contains(Upper(cols[i]), kw)

\* C12: validate_transaction_table_columns returns true exactly for the frames
\* of four columns in which the upper-cased header of every position contains
\* all the keywords of that position, and returns false, raising nothing, for
\* every other frame.
C12_TrueIffSchema ==
    fn = "validate_transaction_table_columns" =>
        ret = Ok(IsTransactionSchema(arg.columns))

\* C12 on the frames whose labels are all text
C12_TextLabelsTrueIffSchema ==
    /\ fn = "validate_transaction_table_columns"
    /\ \A i \in 1..Len(arg.columns) : IsStrLabel(arg.columns[i])
    => ret = Ok(IsTransactionSchema(arg.columns))

---------------------------------------------------------------------------
(* Properties of the table loop of process_pdf                               *)

\* the merged frames of the tables that pass the schema validation, in order
AcceptedFrames ==
    LET acc == SelectSeq(tables, Accepted)
    IN  [i \in 1..Len(acc) |-> clean_columns(acc[i])]

Failed(e) == [kind |-> "failed", exc |-> e]

\* what the steps after the table loop make of the frames dfs: the file they
\* write, or the exception that stops them
Downstream(dfs) ==
    LET c    == concat(dfs)
        n    == Len(c.rows)
        w    == Len(c.columns)
        sb   == IF n = 0 THEN Raise("IndexError") ELSE clean_amount(c.rows[1][w])
        eb   == IF n = 0 THEN Raise("IndexError") ELSE clean_amount(c.rows[n][w])
        san  == clean_transaction_data(c)
        conv == convert_data_types(san.val)
        tot  == validate_transaction_totals(conv.val, sb.val, eb.val)
    IN  IF ~IsOk(sb) THEN Failed(sb.kind)
        ELSE IF ~IsOk(eb) THEN Failed(eb.kind)
        ELSE IF ~IsOk(san) THEN Failed(san.kind)
        ELSE IF ~IsOk(conv) THEN Failed(conv.kind)
        ELSE IF ~IsOk(tot) THEN Failed(tot.kind)
        ELSE [kind |-> "saved",
              csv  |-> to_csv(flip_amount_sign(
                           filter_payment_transactions(conv.val)))]

\* the finished run has the result of a run over the accepted tables alone,
\* and the concatenated frame holds the rows of the accepted tables alone
ResultOfAcceptedTables ==
    /\ raw_combined # NoFrame => raw_combined = concat(AcceptedFrames)
    /\ IF AcceptedFrames = <<>>
       THEN /\ csv = NoFile
            /\ exc = ""
            /\ Last(out) \in {MSG_NO_TABLES, MSG_NO_TRANSACTION}
       ELSE LET r == Downstream(AcceptedFrames)
            IN  IF r.kind = "saved"
                THEN csv = r.csv /\ exc = "" /\ Last(out) = MSG_SAVED
                ELSE csv = NoFile /\ exc = r.exc /\ Last(out) = MSG_ERROR

\* C13: a table that fails the schema validation is skipped and does not stop
\* the run: the finished run has the file, or the failure, that a run over the
\* accepted tables alone has, and no row of a rejected table is in the
\* concatenated frame.  (Stated for the documents that have an accepted
\* table; the documents that have none are the case of C3.)
C13_RejectedTablesSkipped ==
    ExtractedAndDone /\ AcceptedFrames # <<>> => ResultOfAcceptedTables

\* C13 for the documents in which no validation raises
C13_QuietRejectionsSkipped ==
    ExtractedAndDone /\ ~ValidationRaises => ResultOfAcceptedTables

---------------------------------------------------------------------------
(* The unit harness for clean_transaction_data: one call on a frame of the   *)
(* four statement columns and at most MaxTxRows rows.                        *)

MaxTxRows == 2

\* the cells of one row: a date that parses, one that does not (31 February)
\* and a null; a posting date or a null; a description or a null; an amount
\* that parses, one that does not, and a null
TxRows ==
    {<<d, p, t, a>> : d \in {D_020123, D_310223, NaN},
                      p \in {D_020123, NaN},
                      t \in {T_Buy, NaN},
                      a \in {A_1_00, A_1m1_00, NaN}}

SanitizeInit ==
    /\ PIdle
    /\ CIdle
    /\ fn = ""
    /\ ret = NoResult
    /\ \E n \in 0..MaxTxRows :
          \E rws \in [1..n -> TxRows] : arg = DataFrame(Header_OK, rws)

CallCleanTransactionData ==
    /\ fn = ""
    /\ fn' = "clean_transaction_data"
    /\ ret' = clean_transaction_data(arg)
    /\ UNCHANGED <<pvars, cvars, arg>>

SanitizeNext == CallCleanTransactionData

SpecSanitize == SanitizeInit /\ [][SanitizeNext]_vars

---------------------------------------------------------------------------
(* Properties of clean_transaction_data                                      *)

HasNull(r) == \E k \in 1..Len(r) : r[k] = NaN

\* a row without its second cell
Project(r) == <<r[1]>> \o SubSeq(r, 3, Len(r))

Projected(rws) == [k \in 1..Len(rws) |-> Project(rws[k])]

\* C14: clean_transaction_data drops every row that has a null cell in any of
\* the four input columns, the posting date included; its result has exactly
\* three columns, the first, the third and the fourth of the input, and holds
\* no null cell.
C14_NullRowsDropped ==
    fn = "clean_transaction_data" =>
        /\ IsOk(ret)
        /\ ret.val.columns = <<arg.columns[1], arg.columns[3], arg.columns[4]>>
        /\ \A k \in 1..Len(ret.val.rows) :
              /\ Len(ret.val.rows[k]) = 3
              /\ ~HasNull(ret.val.rows[k])
              /\ \E q \in 1..Len(arg.rows) :
                    ~HasNull(arg.rows[q]) /\ Project(arg.rows[q]) = ret.val.rows[k]
        /\ Len(ret.val.rows)
               <= Len(SelectSeq(arg.rows, LAMBDA r : ~HasNull(r)))

\* a call on a frame with a row whose only null cell is the posting date, and
\* a row that is kept
C14_Witness ==
    /\ fn = "clean_transaction_data"
    /\ \E q \in 1..Len(arg.rows) :
          /\ arg.rows[q][2] = NaN
          /\ \A k \in {1, 3, 4} : arg.rows[q][k] # NaN
    /\ Len(ret.val.rows) = 1

\* the date cell and the amount cell of a row both parse
DateAndAmountParse(r) ==
    /\ r[1] # NaN /\ ParseDate(r[1]) # NaT
    /\ r[Len(r)] # NaN /\ IsOk(clean_amount(r[Len(r)]))

\* C15, as stated: the rows of the result are exactly the input rows whose date
\* cell parses under the date pattern and whose amount cell parses with
\* clean_amount, in their order and without the second cell.
C15_RowsThatParse ==
    fn = "clean_transaction_data" =>
        ret.val.rows = Projected(SelectSeq(arg.rows, DateAndAmountParse))

\* C15, as the code has it: the rows of the result are exactly the input rows
\* that have no null cell in any of the four columns and whose date cell and
\* amount cell both parse, in their order and without the second cell.
C15_NullFreeRowsThatParse ==
    fn = "clean_transaction_data" =>
        ret.val.rows =
            Projected(SelectSeq(arg.rows,
                LAMBDA r : ~HasNull(r) /\ DateAndAmountParse(r)))

\* a call that keeps a row and drops a row for its date, or for its amount
C15_Witness ==
    /\ fn = "clean_transaction_data"
    /\ Len(arg.rows) = 2
    /\ Len(ret.val.rows) = 1
    /\ \E q \in 1..2 : ~HasNull(arg.rows[q]) /\ ~DateAndAmountParse(arg.rows[q])

---------------------------------------------------------------------------
(* The unit harness for convert_data_types: one call on a frame of three or  *)
(* four columns (date, posting date or none, description, amount) and at     *)
(* most MaxTxRows rows.                                                      *)

CoerceRows(w) ==
    {<<d>> \o (IF w = 4 THEN <<D_020123>> ELSE <<>>) \o <<t, a>> :
        d \in {D_020123, D_030123, D_310223},
        t \in {T_Buy, T_Payment},
        a \in {A_1_00, A_ms1_00, A_0_0, T_Bal}}

CoerceInit ==
    /\ PIdle
    /\ CIdle
    /\ fn = ""
    /\ ret = NoResult
    /\ \E n \in 0..MaxTxRows :
          \/ \E rws \in [1..n -> CoerceRows(4)] : arg = DataFrame(Header_OK, rws)
          \/ \E rws \in [1..n -> CoerceRows(3)] :
                arg = DataFrame(<<H_TRANS, H_DESCRIPTION, H_AMOUNT_BAHT>>, rws)

CallConvertDataTypes ==
    /\ fn = ""
    /\ fn' = "convert_data_types"
    /\ ret' = convert_data_types(arg)
    /\ UNCHANGED <<pvars, cvars, arg>>

CoerceNext == CallConvertDataTypes

SpecCoerce == CoerceInit /\ [][CoerceNext]_vars

---------------------------------------------------------------------------
(* Properties of convert_data_types                                          *)

---------------------------------------------------------------------------
(* Properties of the balance anchors                                         *)

\* the amount cell of row k of frame f
AmountCell(f, k) == f.rows[k][Len(f.columns)]

\* C17: the balance anchors are read from the concatenated frame as it is
\* before sanitization: the starting balance is clean_amount of the amount
\* cell of its first row, the ending balance clean_amount of the amount cell
\* of its last row; these rows are the first row of the first accepted table
\* that has rows and the last row of the last accepted table that has rows.
C17_AnchorsFromRawFrame ==
    "Anchored" \in Range(stages) =>
        LET n    == Len(raw_combined.rows)
            full == SelectSeq(AcceptedFrames, LAMBDA f : f.rows # <<>>)
        IN  /\ n >= 1
            /\ IsOk(starting_balance)
            /\ IsOk(ending_balance)
            /\ starting_balance = clean_amount(AmountCell(raw_combined, 1))
            /\ ending_balance = clean_amount(AmountCell(raw_combined, n))
            /\ full # <<>>
            /\ starting_balance = clean_amount(AmountCell(full[1], 1))
            /\ ending_balance =
                   clean_amount(AmountCell(full[Len(full)],
                                           Len(full[Len(full)].rows)))

\* anchors read from two accepted tables with rows, the first row of the
\* first being one that sanitization drops and that differs in amount from
\* the first row sanitization keeps
C17_Witness ==
    /\ "Sanitized" \in Range(stages)
    /\ Len(tables) = 2
    /\ \A i \in 1..2 : Accepted(tables[i]) /\ tables[i].rows # <<>>
    /\ combined.rows # <<>>
    /\ Len(combined.rows) < Len(raw_combined.rows)
    /\ raw_combined.rows[1][1] = <<>>
    /\ starting_balance # clean_amount(astype_str(AmountCell(combined, 1)))

---------------------------------------------------------------------------
(* The unit harness for the functions on coerced frames: one call of         *)
(* validate_transaction_totals on a frame of at most MaxTxRows rows and two  *)
(* balances.                                                                 *)

\* 1.00, -1.00, 0.01, 1.0 and 0.0
TotalsAmounts ==
    {Dec(0, 100, -2), Dec(1, 100, -2), Dec(0, 1, -2), Dec(0, 10, -1),
     Dec(0, 0, -1)}

TotalsRows == {<<Date(2023, 1, 2), T_Buy, a>> : a \in TotalsAmounts}

TotalsInit ==
    /\ PIdle
    /\ CIdle
    /\ fn = ""
    /\ ret = NoResult
    /\ \E n \in 0..MaxTxRows :
          \E rws \in [1..n -> TotalsRows], sb \in TotalsAmounts,
             eb \in TotalsAmounts :
             arg = [df |-> DataFrame(<<H_TRANS, H_DESCRIPTION, H_AMOUNT_BAHT>>,
                                     rws),
                    starting_balance |-> sb,
                    ending_balance |-> eb]

CallValidateTotals ==
    /\ fn = ""
    /\ fn' = "validate_transaction_totals"
    /\ ret' = validate_transaction_totals(arg.df, arg.starting_balance,
                                          arg.ending_balance)
    /\ UNCHANGED <<pvars, cvars, arg>>

TotalsNext == CallValidateTotals

SpecTotals == TotalsInit /\ [][TotalsNext]_vars

---------------------------------------------------------------------------
(* Properties of validate_transaction_totals                                 *)

\* an amount in hundredths
Cents(d) == DecScaled(d, -2)

\* the amounts of rows, in hundredths, added up
RECURSIVE CentsSum(_)
CentsSum(rws) ==
    IF rws = <<>> THEN 0
    ELSE Cents(Head(rws)[Len(Head(rws))]) + CentsSum(Tail(rws))

TotalsAgree ==
    Cents(arg.starting_balance) + CentsSum(arg.df.rows)
        = Cents(arg.ending_balance)

\* C18: validate_transaction_totals returns silently exactly when the starting
\* balance plus the sum of the amount column is the ending balance, with no
\* tolerance; otherwise it raises ValueError, and the message of the error
\* holds the starting balance, the computed sum and the ending balance.
C18_ExactOrRaises ==
    fn = "validate_transaction_totals" =>
        /\ ret = Ok(TRUE) <=> TotalsAgree
        /\ ~TotalsAgree =>
              /\ ret.kind = "ValueError"
              /\ Len(ret.args) = 3
              /\ ret.args[1] = DecStr(arg.starting_balance)
              /\ ret.args[3] = DecStr(arg.ending_balance)
              /\ IsOk(clean_amount(ret.args[2])) \/ arg.df.rows = <<>>
              /\ arg.df.rows # <<>> =>
                     Cents(clean_amount(ret.args[2]).val)
                         = CentsSum(arg.df.rows)
              /\ arg.df.rows = <<>> => ret.args[2] = <<"0">>

\* a call whose total misses the ending balance by one hundredth
C18_Witness ==
    /\ fn = "validate_transaction_totals"
    /\ arg.df.rows # <<>>
    /\ Cents(arg.starting_balance) + CentsSum(arg.df.rows)
           = Cents(arg.ending_balance) + 1
    /\ ret.kind = "ValueError"

---------------------------------------------------------------------------
(* The unit harness for filter_payment_transactions and flip_amount_sign:    *)
(* one call of either on a coerced frame of at most MaxTxRows rows, and a    *)
(* second call of flip_amount_sign on the result of the first.               *)

\* "Payment", "payment", "Payment 1", " Payment", "Pay" and "Buy"
LedgerTexts ==
    {T_Payment, T_payment, T_Payment \o <<" ", "1">>, <<" ">> \o T_Payment,
     SubSeq(T_Payment, 1, 3), T_Buy}

\* 1.00, -1.00, 0.0 and -0.0
LedgerAmounts ==
    {Dec(0, 100, -2), Dec(1, 100, -2), Dec(0, 0, -1), Dec(1, 0, -1)}

LedgerRows ==
    {<<Date(2023, 1, 2), t, a>> : t \in LedgerTexts, a \in LedgerAmounts}

LedgerInit ==
    /\ PIdle
    /\ CIdle
    /\ fn = ""
    /\ ret = NoResult
    /\ \E n \in 0..MaxTxRows :
          \E rws \in [1..n -> LedgerRows] :
             arg = DataFrame(<<H_TRANS, H_DESCRIPTION, H_AMOUNT_BAHT>>, rws)

CallFilterPayments ==
    /\ fn = ""
    /\ fn' = "filter_payment_transactions"
    /\ ret' = Ok(filter_payment_transactions(arg))
    /\ UNCHANGED <<pvars, cvars, arg>>

CallFlipSign ==
    /\ fn = ""
    /\ fn' = "flip_amount_sign"
    /\ ret' = Ok(flip_amount_sign(arg))
    /\ UNCHANGED <<pvars, cvars, arg>>

\* flip_amount_sign(flip_amount_sign(df))
CallFlipSignAgain ==
    /\ fn = "flip_amount_sign"
    /\ fn' = "flip_amount_sign twice"
    /\ ret' = Ok(flip_amount_sign(ret.val))
    /\ UNCHANGED <<pvars, cvars, arg>>

LedgerNext == CallFilterPayments \/ CallFlipSign \/ CallFlipSignAgain

SpecLedger == LedgerInit /\ [][LedgerNext]_vars

---------------------------------------------------------------------------
(* Properties of filter_payment_transactions and flip_amount_sign            *)

\* the amount is below zero and the description starts with "Payment"
IsPaymentRow(r) ==
    /\ Cents(r[Len(r)]) < 0
    /\ Len(r[2]) >= 7
    /\ SubSeq(r[2], 1, 7) = <<"P", "a", "y", "m", "e", "n", "t">>

\* C19: filter_payment_transactions removes a row exactly when its amount is
\* below zero and its description starts with "Payment", in that case of
\* letters; every other row (a "Payment" row of amount zero or above, a row of
\* negative amount with another description, "payment" among them) is kept,
\* in its place among the kept rows and unchanged.
C19_PaymentRowsRemoved ==
    fn = "filter_payment_transactions" =>
        /\ ret.val.columns = arg.columns
        /\ ret.val.rows = SelectSeq(arg.rows, LAMBDA r : ~IsPaymentRow(r))

\* a call that removes a negative "Payment" row and keeps a negative
\* "payment" row
C19_Witness ==
    /\ fn = "filter_payment_transactions"
    /\ Len(arg.rows) = 2
    /\ Len(ret.val.rows) = 1
    /\ ret.val.rows[1][2] = T_payment
    /\ Cents(ret.val.rows[1][3]) < 0

\* frame g is frame f with every amount replaced by a decimal of the same
\* number of fraction digits whose value is sgn times the value it had
AmountsScaled(f, g, sgn) ==
    /\ g.columns = f.columns
    /\ Len(g.rows) = Len(f.rows)
    /\ \A r \in 1..Len(f.rows) :
          LET w == Len(f.columns)
          IN  /\ Len(g.rows[r]) = w
              /\ \A k \in 1..(w - 1) : g.rows[r][k] = f.rows[r][k]
              /\ g.rows[r][w].exp = f.rows[r][w].exp
              /\ Cents(g.rows[r][w]) = sgn * Cents(f.rows[r][w])

\* C20: flip_amount_sign replaces every amount by its negation and changes
\* nothing else, and applying it twice gives every amount the value it had.
C20_FlipSelfInverse ==
    /\ fn = "flip_amount_sign" => AmountsScaled(arg, ret.val, -1)
    /\ fn = "flip_amount_sign twice" => AmountsScaled(arg, ret.val, 1)

\* a second flip of a frame with a positive and a negative amount
C20_Witness ==
    /\ fn = "flip_amount_sign twice"
    /\ Len(arg.rows) = 2
    /\ Cents(arg.rows[1][3]) > 0
    /\ Cents(arg.rows[2][3]) < 0

---------------------------------------------------------------------------
(* The unit harness for save_to_csv: the frame process_pdf hands to it holds *)
(* the negated clean_amount of the statement's amount texts; the file is     *)
(* written, and every amount field of the file is parsed by clean_amount.    *)

\* "1,000.5", "3.125", "1.00", "-1.00", "0.0" and "0.0000001"
ExportTexts ==
    {<<"1", ",", "0", "0", "0", ".", "5">>, <<"3", ".", "1", "2", "5">>,
     A_1_00, A_m1_00, A_0_0,
     <<"0", ".", "0", "0", "0", "0", "0", "0", "1">>}

\* the row process_pdf exports for a statement row of amount text t
ExportRow(t) == <<Date(2023, 1, 2), T_Buy, DecNeg(clean_amount(t).val)>>

ExportInit ==
    /\ PIdle
    /\ CIdle
    /\ fn = ""
    /\ ret = NoResult
    /\ \E n \in 0..MaxTxRows :
          \E ts \in [1..n -> ExportTexts] :
             arg = DataFrame(<<H_TRANS, H_DESCRIPTION, H_AMOUNT_BAHT>>,
                             [r \in 1..n |-> ExportRow(ts[r])])

\* df.to_csv(csv_path, index=False, encoding='utf-8-sig')
CallSaveToCsv ==
    /\ fn = ""
    /\ fn' = "save_to_csv"
    /\ ret' = to_csv(arg)
    /\ UNCHANGED <<pvars, cvars, arg>>

\* clean_amount of the amount field of every line of the file
CallParseFile ==
    /\ fn = "save_to_csv"
    /\ fn' = "clean_amount of the file"
    /\ ret' = [r \in 1..Len(ret.rows) |->
                  clean_amount(ret.rows[r][Len(ret.columns)])]
    /\ UNCHANGED <<pvars, cvars, arg>>

ExportNext == CallSaveToCsv \/ CallParseFile

SpecExport == ExportInit /\ [][ExportNext]_vars

---------------------------------------------------------------------------
(* Properties of the exported file                                           *)

\* the number of characters of text t behind its point, 0 without a point
FractionDigits(t) ==
    IF \E p \in 1..Len(t) : t[p] = "."
    THEN Len(t) - (CHOOSE p \in 1..Len(t) : t[p] = "." /\
                       \A q \in (p + 1)..Len(t) : t[q] # ".")
    ELSE 0

\* C21: every amount written to the exported CSV has exactly two fraction
\* digits, whatever number of fraction digits the amount text of the statement
\* had.
C21_TwoFractionDigits ==
    fn = "save_to_csv" =>
        \A r \in 1..Len(ret.rows) :
            LET t == ret.rows[r][Len(ret.columns)]
            IN  /\ FractionDigits(t) = 2
                /\ \A p \in 1..Len(t) : t[p] \in Digits \cup {"-", "."}

\* what the file has instead: str() of the Decimal, with the fraction digits
\* of the exported amount, in scientific notation for an amount below 1E-6
C21_DigitsAsParsed ==
    fn = "save_to_csv" =>
        \A r \in 1..Len(ret.rows) :
            LET t == ret.rows[r][Len(ret.columns)]
                a == arg.rows[r][Len(arg.columns)]
            IN  \/ FractionDigits(t) = -a.exp
                \/ \E p \in 1..Len(t) : t[p] = "E"

\* C22: round trip: parsing each amount field of the written CSV with
\* clean_amount succeeds and yields exactly the decimal value exported.
C22_RoundTrip ==
    fn = "clean_amount of the file" =>
        /\ Len(ret) = Len(arg.rows)
        /\ \A r \in 1..Len(ret) :
              /\ IsOk(ret[r])
              /\ ret[r].val = arg.rows[r][Len(arg.columns)]

\* the round trip of the amounts the file has in plain notation
C22_PlainRoundTrip ==
    fn = "clean_amount of the file" =>
        \A r \in 1..Len(ret) :
            LET a == arg.rows[r][Len(arg.columns)]
            IN  (\A p \in 1..Len(DecStr(a)) : DecStr(a)[p] # "E") =>
                    IsOk(ret[r]) /\ ret[r].val = a

---------------------------------------------------------------------------
(* get_pdf_bytes and main                                                    *)

\* the files main can be pointed at: no file, a file PyPDF2 cannot read, two
\* unencrypted statements (one of them without a table) and a statement
\* encrypted with the user password "test123" and the owner password "owner";
\* "two_tables.pdf" is a statement of two tables for the interactive
\* application
Paths == {"nonexistent.pdf", "garbage.pdf", "sample_transactions.pdf",
          "no_tables.pdf", "encrypted_transactions.pdf"}

FileAt(path) ==
    CASE path = "nonexistent.pdf" -> [kind |-> "missing"]
      [] path = "garbage.pdf" -> [kind |-> "garbage"]
      [] path = "sample_transactions.pdf" ->
            [kind |-> "pdf", is_encrypted |-> FALSE, user |-> "", owner |-> "",
             tables |-> Doc(<<"ok", <<1, 5, 1>>, 3>>)]
      [] path = "no_tables.pdf" ->
            [kind |-> "pdf", is_encrypted |-> FALSE, user |-> "", owner |-> "",
             tables |-> Doc(<<"none", <<>>, 0>>)]
      [] path = "two_tables.pdf" ->
            [kind |-> "pdf", is_encrypted |-> FALSE, user |-> "", owner |-> "",
             tables |-> Doc(<<"ok+paren", <<1, 2>>, 1>>)]
      [] path = "encrypted_transactions.pdf" ->
            [kind |-> "pdf", is_encrypted |-> TRUE, user |-> "test123",
             owner |-> "owner", tables |-> Doc(<<"ok", <<1, 2, 1>>, 3>>)]

\* --password: absent (None, written <<>>), or the text given: empty, right
\* (user or owner) or wrong
NoPassword == <<>>
Passwords == {NoPassword, <<"">>, <<"test123">>, <<"owner">>, <<"wrongpass">>}

\* not password
IsFalsy(password) == password = NoPassword \/ password = <<"">>

\* pdf_reader.decrypt(password): truthy for the user or the owner password
decrypt(f, password) == password[1] \in {f.user, f.owner}

\* the bytes PdfWriter writes: the pages of the file, unencrypted
PdfBytes(f) == [kind |-> "bytes", tables |-> f.tables]

\* the body of the try block: the bytes, or the exception raised
ReadPdf(input_path, password) ==
    LET f == FileAt(input_path)
    IN  IF f.kind = "missing" THEN Raise("FileNotFoundError")
        ELSE IF f.kind = "garbage" THEN Raise("PdfReadError")
        ELSE IF f.is_encrypted
        THEN IF IsFalsy(password)
             THEN [kind |-> "ValueError",
                   text |-> "PDF is encrypted but no password provided"]
             ELSE IF decrypt(f, password) THEN Ok(PdfBytes(f))
             ELSE [kind |-> "ValueError", text |-> "Incorrect password"]
        ELSE Ok(PdfBytes(f))

\* a get_pdf_bytes that goes on whatever decrypt returns
get_pdf_bytes_Unchecked(input_path, password) ==
    LET f == FileAt(input_path)
    IN  IF f.kind = "pdf" /\ ~(f.is_encrypted /\ IsFalsy(password))
        THEN [val |-> PdfBytes(f), raised |-> FALSE, printed |-> <<>>]
        ELSE [val |-> None, raised |-> FALSE, printed |-> <<"Error">>]

\* the three except clauses catch every Exception: a line is printed and None
\* is returned
get_pdf_bytes(input_path, password) ==
    LET r == ReadPdf(input_path, password)
    IN  IF IsOk(r)
        THEN [val |-> r.val, raised |-> FALSE,
              printed |-> IF FileAt(input_path).is_encrypted
                          THEN <<"Successfully decrypted the PDF">> ELSE <<>>]
        ELSE [val |-> None, raised |-> FALSE,
              printed |-> IF r.kind = "FileNotFoundError"
                          THEN <<"Error: The file was not found.">>
                          ELSE IF r.kind = "ValueError"
                          THEN <<"Error: " \o r.text>>
                          ELSE <<"An unexpected error occurred">>]

MainInit ==
    /\ PIdle
    /\ UIdle
    /\ SIdle
    /\ mpc = "get_pdf_bytes"
    /\ \E p \in Paths, pw \in Passwords : args = [input |-> p, password |-> pw]
    /\ pdf_bytes = NoResult
    /\ output_dir = FALSE
    /\ temp_pdf = None

\* pdf_bytes = get_pdf_bytes(args.input, args.password)
MainGetPdfBytes ==
    /\ mpc = "get_pdf_bytes"
    /\ LET r == get_pdf_bytes(args.input, args.password)
       IN  /\ pdf_bytes' = r.val
           /\ out' = out \o r.printed
           /\ mpc' = IF r.raised THEN "raised" ELSE "check"
    /\ UNCHANGED <<pc, tables, idx, df, transaction_dfs, combined,
                   starting_balance, ending_balance, csv, exc, propagated,
                   stages, raw_combined, sanitized, uvars, svars, args,
                   output_dir, temp_pdf>>

\* if pdf_bytes is None: return
MainCheckBytes ==
    /\ mpc = "check"
    /\ mpc' = IF pdf_bytes = None THEN "done" ELSE "makedirs"
    /\ UNCHANGED <<pvars, uvars, svars, args, pdf_bytes, output_dir, temp_pdf>>

\* os.makedirs(args.output_dir, exist_ok=True)
MainMakeDirs ==
    /\ mpc = "makedirs"
    /\ output_dir' = TRUE
    /\ mpc' = "temp"
    /\ UNCHANGED <<pvars, uvars, svars, args, pdf_bytes, temp_pdf>>

\* temp_pdf = tempfile.NamedTemporaryFile(...); write(pdf_bytes); close()
MainWriteTemp ==
    /\ mpc = "temp"
    /\ temp_pdf' = [kind |-> "file", exists |-> TRUE, content |-> pdf_bytes]
    /\ mpc' = "call"
    /\ UNCHANGED <<pvars, uvars, svars, args, pdf_bytes, output_dir>>

\* process_pdf(temp_pdf.name, args.output_dir, original_path=args.input) is
\* entered: doc.tables will be the tables of the temporary file
MainProcessPdf ==
    /\ mpc = "call"
    /\ pc = "idle"
    /\ pc' = "convert"
    /\ tables' = temp_pdf.content.tables
    /\ mpc' = "process_pdf"
    /\ UNCHANGED <<idx, df, transaction_dfs, combined, starting_balance,
                   ending_balance, csv, exc, propagated, out, stages,
                   raw_combined, sanitized, uvars, svars, args, pdf_bytes,
                   output_dir, temp_pdf>>

\* finally: os.unlink(temp_pdf.name), once process_pdf has returned or raised
MainCleanup ==
    /\ mpc = "process_pdf"
    /\ pc = "done"
    /\ temp_pdf' = [temp_pdf EXCEPT !.exists = FALSE]
    /\ mpc' = IF propagated THEN "raised" ELSE "done"
    /\ UNCHANGED <<pvars, uvars, svars, args, pdf_bytes, output_dir>>

MainNext ==
    \/ MainGetPdfBytes
    \/ MainCheckBytes
    \/ MainMakeDirs
    \/ MainWriteTemp
    \/ MainProcessPdf
    \/ MainCleanup
    \/ Next

SpecMain == MainInit /\ [][MainNext]_vars

---------------------------------------------------------------------------
(* Properties of get_pdf_bytes and main                                      *)

\* the file main is pointed at
InputFile == FileAt(args.input)

\* the password given is the user or the owner password of the file
RightPassword ==
    /\ args.password \notin {<<>>, <<"">>}
    /\ args.password[1] \in {InputFile.user, InputFile.owner}

\* get_pdf_bytes has returned
Returned == mpc \notin {"idle", "get_pdf_bytes", "raised"}

\* C23: get_pdf_bytes returns bytes only for an unencrypted file or an
\* encrypted file given its right password; for a missing file, an encrypted
\* file with no or an empty password, and an encrypted file with a wrong
\* password it returns None without raising, and main then stops: the output
\* directory is not created and process_pdf does not run.
C23_BytesOrNone ==
    /\ mpc # "raised"
    /\ Returned =>
          /\ pdf_bytes # None =>
                /\ InputFile.kind = "pdf"
                /\ ~InputFile.is_encrypted \/ RightPassword
                /\ pdf_bytes = [kind |-> "bytes", tables |-> InputFile.tables]
          /\ \/ InputFile.kind = "missing"
             \/ InputFile.kind = "pdf" /\ InputFile.is_encrypted
                                       /\ ~RightPassword
             => /\ pdf_bytes = None
                /\ output_dir = FALSE
                /\ temp_pdf = None
                /\ pc = "idle" /\ stages = <<>> /\ csv = NoFile
                /\ mpc \in {"check", "done"}
          /\ InputFile.kind = "pdf" /\ (~InputFile.is_encrypted \/ RightPassword)
             => pdf_bytes # None

\* main has stopped after a wrong password for the encrypted file
C23_Witness ==
    /\ mpc = "done"
    /\ args = [input |-> "encrypted_transactions.pdf", password |-> <<"wrongpass">>]
    /\ pdf_bytes = None
    /\ output_dir = FALSE

---------------------------------------------------------------------------
(* Properties of the anchor rows                                             *)

\* the rows of the concatenated frame between its first and its last row
InteriorRows ==
    SubSeq(raw_combined.rows, 2, Len(raw_combined.rows) - 1)

\* the sanitizer keeps row r
Kept(r) == ~HasNull(r) /\ DateAndAmountParse(r)

\* the frame clean_transaction_data has returned holds the interior rows that
\* the sanitizer keeps and no other row, so neither anchor row is summed by
\* validate_transaction_totals or exported
OnlyInteriorRowsKept ==
    /\ combined.rows = Projected(SelectSeq(InteriorRows, Kept))
    /\ ~Kept(raw_combined.rows[1])
    /\ ~Kept(raw_combined.rows[Len(raw_combined.rows)])

\* C24: in every run the first and the last row of the concatenated,
\* unsanitized table are dropped by clean_transaction_data, so that their
\* amounts count as balances only.
C24_AnchorRowsDropped == pc = "convert_types" => OnlyInteriorRowsKept

\* the anchor rows are dropped when their date cells are not dates
C24_UndatedAnchorRowsDropped ==
    /\ pc = "convert_types"
    /\ ParseDate(raw_combined.rows[1][1]) = NaT
    /\ ParseDate(raw_combined.rows[Len(raw_combined.rows)][1]) = NaT
    => OnlyInteriorRowsKept

---------------------------------------------------------------------------
(* The unit harness for convert_data_types on sanitized data: one call of    *)
(* clean_transaction_data on a frame of four columns of text cells and at    *)
(* most MaxTxRows rows, then convert_data_types on what it returned.         *)

\* dates: two that parse ("02/01/23", "2/1/23"), 31 February, "nan" and the
\* empty text; amounts: three that parse ("1.00", "- 1.00", "0.0"), "1-1.00",
\* which matches the pattern and is no Decimal, and "Bal"
TextRows ==
    {<<d, D_020123, T_Buy, a>> :
        d \in {D_020123, <<"2", "/", "1", "/", "2", "3">>, D_310223, T_nan,
               <<>>},
        a \in {A_1_00, A_ms1_00, A_0_0, A_1m1_00, T_Bal}}

TextInit ==
    /\ PIdle
    /\ CIdle
    /\ fn = ""
    /\ ret = NoResult
    /\ \E n \in 0..MaxTxRows :
          \E rws \in [1..n -> TextRows] : arg = DataFrame(Header_OK, rws)

\* convert_data_types(clean_transaction_data(df))
CallConvertSanitized ==
    /\ fn = "clean_transaction_data"
    /\ IsOk(ret)
    /\ fn' = "convert_data_types"
    /\ ret' = convert_data_types(ret.val)
    /\ UNCHANGED <<pvars, cvars, arg>>

TextNext == CallCleanTransactionData \/ CallConvertSanitized

SpecSanitizeCoerce == TextInit /\ [][TextNext]_vars

---------------------------------------------------------------------------
(* Coercion after sanitization                                               *)

\* C25: convert_data_types applied to the result of clean_transaction_data on
\* a four-column table of text cells raises no error: it returns a frame with
\* one row for every row the sanitizer kept, a date in its first cell and a
\* decimal in its last.
C25_CoercionNeverFails ==
    /\ fn = "clean_transaction_data" => IsOk(ret)
    /\ fn = "convert_data_types" =>
          /\ IsOk(ret)
          /\ Len(ret.val.rows) = Len(SelectSeq(arg.rows, Kept))
          /\ \A r \in 1..Len(ret.val.rows) :
                /\ ret.val.rows[r][1] \in
                       {Date(2023, 1, 2)}
                /\ ret.val.rows[r][3] \in
                       {Dec(0, 100, -2), Dec(1, 100, -2), Dec(0, 0, -1)}

\* a frame with a row that is kept, a row of 31 February and a row of amount
\* "1-1.00", sanitized and coerced
C25_Witness ==
    /\ fn = "convert_data_types"
    /\ IsOk(ret)
    /\ Len(ret.val.rows) = 1
    /\ \E q \in 1..Len(arg.rows) : arg.rows[q][1] = D_310223
    /\ \E q \in 1..Len(arg.rows) : arg.rows[q][4] = A_1m1_00

---------------------------------------------------------------------------
(* Properties of the concatenation                                           *)

\* the rows of the frames dfs, frame after frame
RECURSIVE RowsInOrder(_)
RowsInOrder(dfs) ==
    IF dfs = <<>> THEN <<>> ELSE Head(dfs).rows \o RowsInOrder(Tail(dfs))

\* the concatenated frame has four columns and the rows of the accepted
\* tables, table after table, each row as it is in its table
FourColumnsAllRows ==
    /\ Len(raw_combined.columns) = 4
    /\ raw_combined.rows = RowsInOrder(transaction_dfs)

\* C26: the concatenated table holds every row of every accepted table in
\* document order and has exactly 4 columns, also when the header texts of the
\* accepted tables differ ("AMOUNT BAHT" and "AMOUNT (BAHT)").
C26_ConcatKeepsShape ==
    "Concatenated" \in Range(stages) => FourColumnsAllRows

\* the same of accepted tables that all have the header texts of the first
C26_SameHeadersKeepShape ==
    /\ "Concatenated" \in Range(stages)
    /\ \A i \in 1..Len(transaction_dfs) :
          transaction_dfs[i].columns = transaction_dfs[1].columns
    => FourColumnsAllRows

---------------------------------------------------------------------------
(* Properties of an anchor that does not parse                               *)

\* the amount cell of the first or of the last row of the concatenated frame
\* is one clean_amount raises on
AnchorUnparsable ==
    /\ raw_combined # NoFrame
    /\ raw_combined.rows # <<>>
    /\ \/ ~IsOk(clean_amount(AmountCell(raw_combined, 1)))
       \/ ~IsOk(clean_amount(AmountCell(raw_combined, Len(raw_combined.rows))))

\* C27: when the amount cell of the first or of the last row of the
\* concatenated table does not parse, the run stops at the anchors: the
\* Anchored stage is not completed, no later stage runs, no CSV is written and
\* the error is reported, whatever the other rows are.
C27_UnparsableAnchorAborts ==
    AnchorUnparsable =>
        /\ csv = NoFile
        /\ Last(stages) = "Concatenated"
        /\ pc \in {"anchor", "except", "done"}
        /\ pc = "done" => Last(out) = MSG_ERROR /\ ~propagated

\* a run stopped by its last row's amount, the first row's amount being a
\* balance and the row between them a transaction the sanitizer keeps
C27_Witness ==
    /\ pc = "done"
    /\ AnchorUnparsable
    /\ Len(raw_combined.rows) = 3
    /\ IsOk(clean_amount(AmountCell(raw_combined, 1)))
    /\ Kept(raw_combined.rows[2])

---------------------------------------------------------------------------
(* The interactive application: interactive_processor.main is run from top   *)
(* to bottom after every change of a widget and every click; st.session_state *)
(* lasts from run to run. Tables are numbered from 1 here (Table idx + 1).    *)
(* The page of a table, the cell edits and the column removals of             *)
(* edit_table_interface, the PDF preview and the sidebar options of the       *)
(* export format are left out: no edit is made, every column is kept.         *)

\* the files that can be uploaded
Uploads == {"sample_transactions.pdf", "two_tables.pdf", "no_tables.pdf",
            "garbage.pdf", "encrypted_transactions.pdf"}

\* the texts typed into the password field
PasswordTexts == {"", "test123", "wrongpass"}

MSG_ENCRYPTED       == "This PDF is encrypted!"
MSG_DECRYPT_FAILED  == "Failed to decrypt PDF. Please check the password."
MSG_NO_TABLES_FOUND == "No tables found in the PDF"
MSG_EXTRACTED       == "Extracted tables from PDF"
MSG_SAVED_DATA      == "Saved processed data"

\* a dict, in insertion order: a sequence of items
HasKey(d, k) == \E p \in 1..Len(d) : d[p].key = k

\* d[k] = v: the item keeps its place when the key is present, else it is
\* added at the end
DictSet(d, k, v) ==
    IF HasKey(d, k)
    THEN [p \in 1..Len(d) |-> IF d[p].key = k THEN [key |-> k, value |-> v]
                              ELSE d[p]]
    ELSE Append(d, [key |-> k, value |-> v])

\* del d[k]
DictDel(d, k) == SelectSeq(d, LAMBDA e : e.key # k)

\* list(d.values())
DictValues(d) == [p \in 1..Len(d) |-> d[p].value]

\* the first statements of the handler of the "Process PDF" button: the
\* session state of the last file is cleared
Cleared(ss) ==
    [ss EXCEPT !.edited_tables = <<>>,
               !.tables_data = <<>>,
               !.pdf_processed = FALSE,
               !.initial_selection_done = FALSE]

\* the handler after the clearing, on the cleared state: f is the uploaded
\* file, decrypted what get_pdf_bytes gives for the password; extracted is
\* FALSE when the converter raises. It gives the new session state, what it
\* reported, and whether main went on (it returns after an error)
Handler(up, pw, cleared, f, decrypted, extracted) ==
    LET is_encrypted == f.kind = "pdf" /\ f.is_encrypted
        tables_found ==
            IF pw # ""
            THEN (IF decrypted = None \/ ~extracted THEN <<>>
                  ELSE decrypted.tables)
            ELSE IF f.kind = "pdf" /\ extracted THEN f.tables ELSE <<>>
    IN  IF is_encrypted /\ pw = ""
        THEN [ss |-> cleared, report |-> MSG_ENCRYPTED, goes_on |-> FALSE]
        ELSE IF pw # "" /\ decrypted = None
        THEN [ss |-> cleared, report |-> MSG_DECRYPT_FAILED, goes_on |-> FALSE]
        ELSE IF tables_found # <<>>
        THEN [ss |-> [cleared EXCEPT
                        !.tables = tables_found,
                        !.pdf_processed = TRUE,
                        !.original_filename = up,
                        !.current_filename = up,
                        !.tables_data =
                            [i \in 1..Len(tables_found) |->
                                [dataframe |-> clean_columns(tables_found[i]),
                                 original_table |-> tables_found[i]]]],
              report |-> MSG_EXTRACTED, goes_on |-> TRUE]
        ELSE [ss |-> cleared, report |-> MSG_NO_TABLES_FOUND, goes_on |-> TRUE]

\* a handler that leaves the state of the last file when no table comes out
KeepOnFailure(ss, r) == IF r.ss.pdf_processed THEN r ELSE [r EXCEPT !.ss = ss]

ProcessPdf_KeepOnFailure(up, pw, ss, extracted) ==
    KeepOnFailure(ss, Handler(up, pw, Cleared(ss), FileAt(up),
                              get_pdf_bytes(up, <<pw>>).val, extracted))

\* the handler of the "Process PDF" button up to the end of its with block
ProcessPdf(up, pw, ss, extracted) ==
    Handler(up, pw, Cleared(ss), FileAt(up), get_pdf_bytes(up, <<pw>>).val,
            extracted)

\* the value of the checkbox of table i: its widget state when it has one (the
\* checkboxes kept of those of the last run, whose states are sel), else
\* its default (selected on the first display, else its presence in
\* edited_tables)
CheckboxValue(ss, sel, kept, i) ==
    IF i \in kept THEN sel[i]
    ELSE IF ~ss.initial_selection_done THEN TRUE
    ELSE HasKey(ss.edited_tables, i)

\* the loop of the first tab over the tables from i on: a selected table is
\* put into edited_tables, an unselected one is taken out
RECURSIVE SelectLoop(_, _, _, _, _)
SelectLoop(ss, sel, kept, i, et) ==
    IF i > Len(ss.tables_data) THEN et
    ELSE SelectLoop(ss, sel, kept, i + 1,
                    IF CheckboxValue(ss, sel, kept, i)
                    THEN DictSet(et, i, ss.tables_data[i].dataframe)
                    ELSE DictDel(et, i))

\* process_selected_tables up to pd.concat: every table cut or padded to the
\* number of columns of the first, under the labels of the first
AlignAndConcat(selected) ==
    LET reference_columns == selected[1].columns
        num_cols          == Len(reference_columns)
        Aligned(d) ==
            [r \in 1..Len(d.rows) |->
                [k \in 1..num_cols |->
                    IF k <= Len(d.columns) THEN d.rows[r][k] ELSE <<>>]]
    IN  DataFrame(reference_columns,
                  RowsInOrder([p \in 1..Len(selected) |->
                                  DataFrame(reference_columns,
                                            Aligned(selected[p]))]))

\* the rest of a run of main after the handler of the button: handled is what
\* the handler left, et the edited_tables the loop of the first tab leaves
Display(up, pw, sel, kept, save, handled, shows, et) ==
    /\ uploaded_file' = up
    /\ password_input' = pw
    /\ IF ~shows
       THEN /\ session_state' = handled.ss
            /\ select' = <<>>
            /\ displayed' = <<>>
            /\ report' = handled.report
            /\ UNCHANGED <<selected_tables, combined_df>>
       ELSE /\ session_state' = [handled.ss EXCEPT
                                    !.edited_tables = et,
                                    !.initial_selection_done = TRUE]
            /\ select' = [i \in 1..Len(handled.ss.tables_data) |->
                             CheckboxValue(handled.ss, sel, kept, i)]
            /\ displayed' = [i \in 1..Len(handled.ss.tables_data) |->
                                handled.ss.tables_data[i].dataframe]
            /\ IF save /\ et # <<>>
               THEN /\ selected_tables' = DictValues(et)
                    /\ combined_df' = AlignAndConcat(DictValues(et))
                    /\ report' = MSG_SAVED_DATA
               ELSE /\ report' = handled.report
                    /\ UNCHANGED <<selected_tables, combined_df>>
    /\ UNCHANGED <<pvars, uvars, mvars>>

\* the tabs are shown when a file is uploaded, the handler did not return and
\* a file is processed
Tabs(up, pw, sel, kept, save, handled) ==
    Display(up, pw, sel, kept, save, handled,
            up # "" /\ handled.goes_on /\ handled.ss.pdf_processed,
            SelectLoop(handled.ss, sel, kept, 1, handled.ss.edited_tables))

\* one run of main: the file up and the password pw in the sidebar, the
\* checkbox states sel of which those of kept are still there, and the button
\* clicked, if any
Script(up, pw, sel, kept, process, extracted, save) ==
    Tabs(up, pw, sel, kept, save,
         IF process THEN ProcessPdf(up, pw, session_state, extracted)
         ELSE [ss |-> session_state, report |-> "", goes_on |-> TRUE])

SessionInit == PIdle /\ UIdle /\ MIdle /\ SIdle

\* a file is uploaded, or the upload is removed
Upload ==
    \E f \in Uploads \cup {""} :
        /\ f # uploaded_file
        /\ Script(f, password_input, select, DOMAIN select, FALSE, TRUE, FALSE)

\* the password field is changed
TypePassword ==
    \E p \in PasswordTexts :
        /\ p # password_input
        /\ Script(uploaded_file, p, select, DOMAIN select, FALSE, TRUE, FALSE)

\* a click on "Process PDF"; a checkbox of the last run keeps its state or is
\* built anew, as the Streamlit at hand has it
ClickProcess ==
    /\ uploaded_file # ""
    /\ \E extracted \in BOOLEAN, kept \in SUBSET DOMAIN select :
          Script(uploaded_file, password_input, select, kept, TRUE, extracted,
                 FALSE)

\* the checkbox of table i is ticked or cleared
Toggle ==
    \E i \in 1..Len(select) :
        Script(uploaded_file, password_input, [select EXCEPT ![i] = ~@],
               DOMAIN select, FALSE, TRUE, FALSE)

\* a click on "Save to CSV", shown when edited_tables is not empty
ClickSave ==
    /\ select # <<>>
    /\ session_state.edited_tables # <<>>
    /\ Script(uploaded_file, password_input, select, DOMAIN select, FALSE,
              TRUE, TRUE)

SessionNext == Upload \/ TypePassword \/ ClickProcess \/ Toggle \/ ClickSave

SpecSession == SessionInit /\ [][SessionNext]_vars

---------------------------------------------------------------------------
(* Properties of the interactive session                                     *)

\* the last run handled a click on "Process PDF" that did not end with the
\* tables of the file: the file is encrypted and no password is given, the
\* decryption fails, or no table is found
ProcessFailed ==
    report \in {MSG_ENCRYPTED, MSG_DECRYPT_FAILED, MSG_NO_TABLES_FOUND}

\* C28: after a click on "Process PDF" that does not end in the extraction of
\* at least one table, pdf_processed is false and tables_data and
\* edited_tables are empty, and nothing of an earlier file is shown or can be
\* saved; and whenever pdf_processed is true, tables_data has exactly one
\* entry for every table of the file named by current_filename, in order.
C28_SessionConsistent ==
    /\ ProcessFailed =>
          /\ ~session_state.pdf_processed
          /\ session_state.tables_data = <<>>
          /\ session_state.edited_tables = <<>>
          /\ displayed = <<>>
          /\ ~ENABLED ClickSave
    /\ session_state.pdf_processed =>
          LET ts == FileAt(session_state.current_filename).tables
          IN  /\ session_state.current_filename \in Uploads
              /\ Len(ts) >= 1
              /\ Len(session_state.tables_data) = Len(ts)
              /\ \A i \in 1..Len(ts) :
                    /\ session_state.tables_data[i].original_table = ts[i]
                    /\ session_state.tables_data[i].dataframe
                           = clean_columns(ts[i])

\* a failed decryption of a second file after a first file was processed and
\* shown
C28_Witness ==
    /\ report = MSG_DECRYPT_FAILED
    /\ session_state.current_filename = "two_tables.pdf"
    /\ uploaded_file = "encrypted_transactions.pdf"
    /\ ~session_state.pdf_processed

\* the frames of the tables whose checkbox is ticked, by ascending table
\* number
SelectedAscending ==
    LET ticked == SelectSeq(Positions(Len(select)), LAMBDA i : select[i])
    IN  [p \in 1..Len(ticked) |->
            session_state.tables_data[ticked[p]].dataframe]

\* the last run handled a click on "Save to CSV"
Saved == report = MSG_SAVED_DATA

\* C29: the tables handed to "Save to CSV" are exactly the tables selected at
\* the click, by ascending table number, whatever the order in which they
\* were selected, deselected and reselected: the saved rows are in document
\* order and the labels are those of the selected table of lowest number.
C29_SavedInTableOrder ==
    Saved =>
        /\ selected_tables = SelectedAscending
        /\ combined_df.columns = SelectedAscending[1].columns
        /\ combined_df = AlignAndConcat(SelectedAscending)

\* the tables handed over are the selected tables in some order: each selected
\* table once, no other
C29_SavedAreTheSelected ==
    Saved =>
        /\ Len(selected_tables) = Len(SelectedAscending)
        /\ \A p \in 1..Len(SelectedAscending) :
              \E q \in 1..Len(selected_tables) :
                  selected_tables[q] = SelectedAscending[p]
        /\ DictValues(session_state.edited_tables) = selected_tables

\* the same with the order: the tables handed over are in the order in which
\* they were last selected, so those of a selection made in ascending order
\* are in table order
C29_SelectionOrder ==
    Saved /\ (\A p \in 1..Len(session_state.edited_tables) :
                 \A q \in 1..Len(session_state.edited_tables) :
                     p < q => session_state.edited_tables[p].key
                                  < session_state.edited_tables[q].key)
    => selected_tables = SelectedAscending

=============================================================================
